---------------------------- MODULE Spec2Model ----------------------------
(***************************************************************************)
(* Device Activity Tracker: the RTT classification engine (RttAnalyzer)    *)
(* and the probe correlation / timeout manager (WhatsAppTracker, the       *)
(* second, two-axis version of src/src/tracker.ts, lines 492-1179), and    *)
(* the trackers map of the web server (src/src/server.ts).                 *)
(*                                                                         *)
(* Numbers.  RTT samples are integers (milliseconds).  Every statistic     *)
(* derived from them (median, percentile, IQR, threshold) is a dyadic      *)
(* rational that JavaScript's doubles hold exactly; the model holds such a *)
(* value v as the integer 16 * v (see Fx).  Times are milliseconds         *)
(* (Date.now()).                                                           *)
(***************************************************************************)
EXTENDS Integers, Sequences, FiniteSets

VARIABLES
    rttAnalyzer,      \* the RttAnalyzer object (a record of its private fields)
    isTracking,       \* WhatsAppTracker.isTracking
    probeMethod,      \* WhatsAppTracker.probeMethod
    trackedJids,      \* WhatsAppTracker.trackedJids
    deviceMetrics,    \* WhatsAppTracker.deviceMetrics: jid -> DeviceMetrics
    probeStartTimes,  \* WhatsAppTracker.probeStartTimes: message id -> start time
    probeTimeouts,    \* WhatsAppTracker.probeTimeouts: message id -> timer handle
    lastPresence,     \* WhatsAppTracker.lastPresence
    listeners,        \* the listener fields and what is registered on the socket
    timers,           \* the runtime's armed timers (setTimeout, not yet fired or cleared)
    loops,            \* the startTracking / probeLoop activations and where each is suspended
    nextMsgId,        \* message ids the socket has handed out so far
    crashed,          \* an exception left a timer callback uncaught
    now,              \* Date.now()
    link,             \* the network path: the round-trip time an ACK takes
    lastEvent,        \* the handler that ran last, with what it returned / emitted
    forwarded,        \* history: message id -> RTT measurements forwarded for it
    expired,          \* history: message ids whose timer callback removed the record
    timeoutsSinceAck, \* history: jid -> timer expiries for it since its last ACK
    observed,         \* history: what the analyzer was given, what the last ACK found
    config,           \* the Config that getConfig() returned (environment overrides)
    sock,             \* server.ts: the socket connectToWhatsApp made last (0: null)
    connecting,       \* server.ts: a connectToWhatsApp() call is under way
    trackers,         \* server.ts: trackers, JID -> tracker instance
    instances,        \* server.ts: the WhatsAppTracker objects add-contact created
    requests          \* server.ts: the add-contact handlers and where each stands

trackerVars == <<isTracking, probeMethod, trackedJids, deviceMetrics,
                 probeStartTimes, probeTimeouts, lastPresence, listeners,
                 timers, loops, nextMsgId, crashed>>

historyVars == <<forwarded, expired, timeoutsSinceAck, observed>>

serverVars == <<sock, connecting, trackers, instances, requests>>

vars == <<rttAnalyzer, trackerVars, now, link, lastEvent, historyVars, config,
         serverVars>>

-----------------------------------------------------------------------------
(* config.ts: defaultConfig *)

offlineThreshold == 10000
globalHistoryLimit == 2000
deviceHistoryLimit == 50
probeTimeout == 10000
slidingWindowSize == 20
magnitudePercentile == 75
jitterPercentile == 75
minSamplesForJitter == 5
stateConfirmationWindows == 3
stateConfirmationSeconds == 5
discardInitialSamples == 5
mediumConfidenceTransitions == 2
highConfidenceTransitions == 4
transitionThresholdPercent == 25
fixedMagnitudeThreshold == 800
probeIntervalDefault == 2000

(* RttAnalyzer *)
THRESHOLD_UPDATE_INTERVAL == 5
maxValidRtt == 60000

Null == "null"

ActivityState == {"Online", "Standby", "Offline", "Calibrating"}
NetworkType == {"Wi-Fi", "LTE", "Unknown"}
ConfidenceLevel == {"Low", "Medium", "High"}

\* A statistic v in the model's fixed-point form.
Fx(v) == 16 * v

Min(x, y) == IF x <= y THEN x ELSE y

Abs(x) == IF x < 0 THEN -x ELSE x

-----------------------------------------------------------------------------
(* RttAnalyzer: pure helpers *)

RECURSIVE InsertSorted(_, _)
InsertSorted(s, x) ==
    IF s = <<>> THEN <<x>>
    ELSE IF x <= Head(s) THEN <<x>> \o s
    ELSE <<Head(s)>> \o InsertSorted(Tail(s), x)

\* [...values].sort((a, b) => a - b)
RECURSIVE Sorted(_)
Sorted(values) ==
    IF values = <<>> THEN <<>>
    ELSE InsertSorted(Sorted(Tail(values)), Head(values))

\* A median that takes the upper middle element of an even-length array
calculateMedianUpper(values) ==
    IF Len(values) = 0 THEN 0
    ELSE Sorted(values)[Len(values) \div 2 + 1]

\* values: fixed-point numbers.  JS arrays are 0-based, sequences 1-based.
calculateMedian(values) ==
    IF Len(values) = 0 THEN 0
    ELSE LET sorted == Sorted(values)
             mid == Len(sorted) \div 2
         IN  IF Len(sorted) % 2 # 0
             THEN sorted[mid + 1]
             ELSE (sorted[mid] + sorted[mid + 1]) \div 2

\* index = (percentile / 100) * (n - 1); lower = floor(index), upper = ceil(index);
\* the fraction index - lower is (percentile * (n - 1) % 100) / 100.
getPercentile(values, percentile) ==
    IF Len(values) = 0 THEN 0
    ELSE LET sorted == Sorted(values)
             num == percentile * (Len(sorted) - 1)
             lower == num \div 100
             rem == num % 100
         IN  IF rem = 0
             THEN sorted[lower + 1]
             ELSE sorted[lower + 1]
                    + (rem * (sorted[lower + 2] - sorted[lower + 1])) \div 100

calculateIQR(values) ==
    IF Len(values) < 4 THEN 0
    ELSE getPercentile(values, 75) - getPercentile(values, 25)

\* An outlier test that is active from five entries on
isExtremeOutlierFromFive(value, history) ==
    IF Len(history) < 5 THEN FALSE
    ELSE value > getPercentile(history, 75)
                 + 3 * (getPercentile(history, 75) - getPercentile(history, 25))

isExtremeOutlier(value, history) ==
    IF Len(history) < 10 THEN FALSE
    ELSE LET q1 == getPercentile(history, 25)
             q3 == getPercentile(history, 75)
             iqr == q3 - q1
             upperBound == q3 + 3 * iqr
         IN  value > upperBound

\* The window's samples in fixed-point form.
FxSeq(window) == [i \in DOMAIN window |-> Fx(window[i])]

\* [isNull |-> TRUE] when the window is short, else the median and jitter.
calculateWindowStats(a) ==
    IF Len(a.slidingWindow) < minSamplesForJitter
    THEN [isNull |-> TRUE, median |-> 0, jitter |-> 0]
    ELSE [isNull |-> FALSE,
          median |-> calculateMedian(FxSeq(a.slidingWindow)),
          jitter |-> calculateIQR(FxSeq(a.slidingWindow))]

\* changePercent >= transitionThresholdPercent, where
\* changePercent = |currentMedian - lastStableMedian| / lastStableMedian * 100
changeAtLeastThreshold(currentMedian, lastStableMedian) ==
    Abs(currentMedian - lastStableMedian) * 100
        >= transitionThresholdPercent * lastStableMedian

\* A detection that counts the departure
detectTransitionOnDeparture(a, currentMedian) ==
    IF a.lastStableMedian = 0
    THEN [a EXCEPT !.lastStableMedian = currentMedian]
    ELSE IF changeAtLeastThreshold(currentMedian, a.lastStableMedian)
    THEN [a EXCEPT !.transitionInProgress = TRUE,
                   !.observedTransitions = @ + 1]
    ELSE IF a.transitionInProgress
    THEN [a EXCEPT !.lastStableMedian = currentMedian,
                   !.transitionInProgress = FALSE]
    ELSE a

detectTransition(a, currentMedian) ==
    IF a.lastStableMedian = 0
    THEN [a EXCEPT !.lastStableMedian = currentMedian]
    ELSE IF changeAtLeastThreshold(currentMedian, a.lastStableMedian)
    THEN [a EXCEPT !.transitionInProgress = TRUE]
    ELSE IF a.transitionInProgress
    THEN [a EXCEPT !.observedTransitions = @ + 1,
                   !.lastStableMedian = currentMedian,
                   !.transitionInProgress = FALSE]
    ELSE a

\* Confidence levels reached one transition late
getConfidenceLevelAbove(a) ==
    IF a.observedTransitions > highConfidenceTransitions THEN "High"
    ELSE IF a.observedTransitions > mediumConfidenceTransitions THEN "Medium"
    ELSE "Low"

getConfidenceLevel(a) ==
    IF a.observedTransitions >= highConfidenceTransitions THEN "High"
    ELSE IF a.observedTransitions >= mediumConfidenceTransitions THEN "Medium"
    ELSE "Low"

\* The cached threshold used as soon as there is one, whatever the confidence
getEffectiveMagnitudeThresholdAnyConfidence(a) ==
    IF a.cachedMagnitudeThreshold > 0
    THEN a.cachedMagnitudeThreshold
    ELSE Fx(fixedMagnitudeThreshold)

getEffectiveMagnitudeThreshold(a) ==
    LET confidence == getConfidenceLevel(a)
    IN  IF (confidence = "Medium" \/ confidence = "High")
           /\ a.cachedMagnitudeThreshold > 0
        THEN a.cachedMagnitudeThreshold
        ELSE Fx(fixedMagnitudeThreshold)

\* A recomputation on every evaluation with enough history
updateAdaptiveThresholdsUnthrottled(a) ==
    IF Len(a.medianHistory) < minSamplesForJitter THEN a
    ELSE [a EXCEPT
           !.cachedMagnitudeThreshold =
               getPercentile(a.medianHistory, magnitudePercentile),
           !.cachedJitterThreshold =
               getPercentile(a.jitterHistory, jitterPercentile),
           !.lastThresholdUpdateSize = Len(a.medianHistory)]

updateAdaptiveThresholds(a) ==
    IF Len(a.medianHistory) < minSamplesForJitter THEN a
    ELSE LET shouldUpdate ==
                 \/ Len(a.medianHistory) - a.lastThresholdUpdateSize
                        >= THRESHOLD_UPDATE_INTERVAL
                 \/ a.cachedMagnitudeThreshold = 0
         IN  IF shouldUpdate
             THEN [a EXCEPT
                    !.cachedMagnitudeThreshold =
                        getPercentile(a.medianHistory, magnitudePercentile),
                    !.cachedJitterThreshold =
                        getPercentile(a.jitterHistory, jitterPercentile),
                    !.lastThresholdUpdateSize = Len(a.medianHistory)]
             ELSE a

\* elapsedSeconds >= stateConfirmationSeconds, elapsedSeconds = (t - start) / 1000
elapsedAtLeastConfirmation(t, start) ==
    t - start >= stateConfirmationSeconds * 1000

\* A confirmation rule that takes either condition
shouldConfirmActivityEither(a, t) ==
    IF a.pendingActivity = Null THEN FALSE
    ELSE \/ a.activityWindowCount >= stateConfirmationWindows
         \/ elapsedAtLeastConfirmation(t, a.activityPendingStartTime)

shouldConfirmActivity(a, t) ==
    IF a.pendingActivity = Null THEN FALSE
    ELSE /\ a.activityWindowCount >= stateConfirmationWindows
         /\ elapsedAtLeastConfirmation(t, a.activityPendingStartTime)

\* A confirmation rule that waits for one window more
shouldConfirmNetworkLate(a, t) ==
    IF a.pendingNetwork = Null THEN FALSE
    ELSE /\ a.networkWindowCount >= stateConfirmationWindows + 1
         /\ elapsedAtLeastConfirmation(t, a.networkPendingStartTime)

shouldConfirmNetwork(a, t) ==
    IF a.pendingNetwork = Null THEN FALSE
    ELSE /\ a.networkWindowCount >= stateConfirmationWindows
         /\ elapsedAtLeastConfirmation(t, a.networkPendingStartTime)

\* Progress p (0..100) is held as 150 * p, an integer:
\* windowProgress = count / 3 * 100, timeProgress = elapsedMs / 1000 / 5 * 100.
\* A progress that is the larger of the two
progressOfEither(count, t, start) ==
    IF (count * 100 * 150) \div stateConfirmationWindows
          >= ((t - start) * 100 * 150) \div (stateConfirmationSeconds * 1000)
    THEN Min((count * 100 * 150) \div stateConfirmationWindows, 100 * 150)
    ELSE Min(((t - start) * 100 * 150) \div (stateConfirmationSeconds * 1000),
             100 * 150)

progressOf(count, t, start) ==
    LET windowProgress ==
            Min((count * 100 * 150) \div stateConfirmationWindows, 100 * 150)
        timeProgress ==
            Min(((t - start) * 100 * 150) \div (stateConfirmationSeconds * 1000),
                100 * 150)
    IN  Min(windowProgress, timeProgress)

getActivityProgress(a, t) ==
    IF a.pendingActivity = Null THEN 0
    ELSE progressOf(a.activityWindowCount, t, a.activityPendingStartTime)

getNetworkProgress(a, t) ==
    IF a.pendingNetwork = Null THEN 0
    ELSE progressOf(a.networkWindowCount, t, a.networkPendingStartTime)

\* An activity update that also clears the network candidate
updateActivityConfirmationCoupled(a, rawActivity, t) ==
    IF rawActivity = a.confirmedActivity
    THEN [a EXCEPT !.pendingActivity = Null, !.activityWindowCount = 0,
                   !.pendingNetwork = Null, !.networkWindowCount = 0]
    ELSE IF rawActivity = a.pendingActivity
    THEN LET b == [a EXCEPT !.activityWindowCount = @ + 1]
         IN  IF shouldConfirmActivity(b, t)
             THEN [b EXCEPT !.confirmedActivity = b.pendingActivity,
                            !.pendingActivity = Null,
                            !.activityWindowCount = 0]
             ELSE b
    ELSE [a EXCEPT !.pendingActivity = rawActivity,
                   !.activityPendingStartTime = t,
                   !.activityWindowCount = 1]

\* An activity update that keeps the candidate when the confirmed value is seen
updateActivityConfirmationKeepsCandidate(a, rawActivity, t) ==
    IF rawActivity = a.confirmedActivity THEN a
    ELSE IF rawActivity = a.pendingActivity
    THEN LET b == [a EXCEPT !.activityWindowCount = @ + 1]
         IN  IF shouldConfirmActivity(b, t)
             THEN [b EXCEPT !.confirmedActivity = b.pendingActivity,
                            !.pendingActivity = Null,
                            !.activityWindowCount = 0]
             ELSE b
    ELSE [a EXCEPT !.pendingActivity = rawActivity,
                   !.activityPendingStartTime = t,
                   !.activityWindowCount = 1]

updateActivityConfirmation(a, rawActivity, t) ==
    IF rawActivity = a.confirmedActivity
    THEN [a EXCEPT !.pendingActivity = Null, !.activityWindowCount = 0]
    ELSE IF rawActivity = a.pendingActivity
    THEN LET b == [a EXCEPT !.activityWindowCount = @ + 1]
         IN  IF shouldConfirmActivity(b, t)
             THEN [b EXCEPT !.confirmedActivity = b.pendingActivity,
                            !.pendingActivity = Null,
                            !.activityWindowCount = 0]
             ELSE b
    ELSE [a EXCEPT !.pendingActivity = rawActivity,
                   !.activityPendingStartTime = t,
                   !.activityWindowCount = 1]

updateNetworkConfirmation(a, rawNetwork, t) ==
    IF rawNetwork = a.confirmedNetwork
    THEN [a EXCEPT !.pendingNetwork = Null, !.networkWindowCount = 0]
    ELSE IF rawNetwork = a.pendingNetwork
    THEN LET b == [a EXCEPT !.networkWindowCount = @ + 1]
         IN  IF shouldConfirmNetwork(b, t)
             THEN [b EXCEPT !.confirmedNetwork = b.pendingNetwork,
                            !.pendingNetwork = Null,
                            !.networkWindowCount = 0]
             ELSE b
    ELSE [a EXCEPT !.pendingNetwork = rawNetwork,
                   !.networkPendingStartTime = t,
                   !.networkWindowCount = 1]

-----------------------------------------------------------------------------
(* RttAnalyzer: construction, addMeasurement, determineState, reset *)

\* The field initialisers of the class; reset() assigns the same values.
newRttAnalyzer ==
    [slidingWindow |-> <<>>,
     medianHistory |-> <<>>,
     jitterHistory |-> <<>>,
     cachedMagnitudeThreshold |-> 0,
     cachedJitterThreshold |-> 0,
     lastThresholdUpdateSize |-> 0,
     discardedSampleCount |-> 0,
     confirmedActivity |-> "Calibrating",
     pendingActivity |-> Null,
     activityPendingStartTime |-> 0,
     activityWindowCount |-> 0,
     confirmedNetwork |-> "Unknown",
     pendingNetwork |-> Null,
     networkPendingStartTime |-> 0,
     networkWindowCount |-> 0,
     observedTransitions |-> 0,
     lastStableMedian |-> 0,
     transitionInProgress |-> FALSE]

reset(a) == newRttAnalyzer

\* A burn-in that counts every sample, valid or not
addMeasurementCountsInvalid(a, rtt) ==
    IF a.discardedSampleCount < discardInitialSamples
    THEN [a |-> [a EXCEPT !.discardedSampleCount = @ + 1], added |-> FALSE]
    ELSE IF rtt <= 0 \/ rtt > maxValidRtt
    THEN [a |-> a, added |-> FALSE]
    ELSE LET pushed == Append(a.slidingWindow, rtt)
         IN  [a |-> [a EXCEPT !.slidingWindow =
                        IF Len(pushed) > slidingWindowSize
                        THEN Tail(pushed) ELSE pushed],
              added |-> TRUE]

\* A full window that refuses the new sample instead of evicting the oldest
addMeasurementDropsNewest(a, rtt) ==
    IF rtt <= 0 \/ rtt > maxValidRtt
    THEN [a |-> a, added |-> FALSE]
    ELSE IF a.discardedSampleCount < discardInitialSamples
    THEN [a |-> [a EXCEPT !.discardedSampleCount = @ + 1], added |-> FALSE]
    ELSE LET pushed == Append(a.slidingWindow, rtt)
         IN  [a |-> [a EXCEPT !.slidingWindow =
                        IF Len(pushed) > slidingWindowSize
                        THEN SubSeq(pushed, 1, slidingWindowSize) ELSE pushed],
              added |-> TRUE]

\* [a |-> the analyzer afterwards, added |-> the value returned]
addMeasurement(a, rtt) ==
    IF rtt <= 0 \/ rtt > maxValidRtt
    THEN [a |-> a, added |-> FALSE]
    ELSE IF a.discardedSampleCount < discardInitialSamples
    THEN [a |-> [a EXCEPT !.discardedSampleCount = @ + 1], added |-> FALSE]
    ELSE LET pushed == Append(a.slidingWindow, rtt)
         IN  [a |-> [a EXCEPT !.slidingWindow =
                        IF Len(pushed) > slidingWindowSize
                        THEN Tail(pushed) ELSE pushed],
              added |-> TRUE]

\* A size limit that is applied to the history of medians only
pushHistoryLimitsMedians(a, stats) ==
    LET m1 == IF ~isExtremeOutlier(stats.median, a.medianHistory)
              THEN Append(a.medianHistory, stats.median)
              ELSE a.medianHistory
    IN  [a EXCEPT
          !.medianHistory =
              IF Len(m1) > config.globalHistoryLimit THEN Tail(m1) ELSE m1,
          !.jitterHistory = Append(a.jitterHistory, stats.jitter)]

\* medianHistory.push / jitterHistory.push with the size limit (shift)
pushHistory(a, stats) ==
    LET m1 == IF ~isExtremeOutlier(stats.median, a.medianHistory)
              THEN Append(a.medianHistory, stats.median)
              ELSE a.medianHistory
        j1 == Append(a.jitterHistory, stats.jitter)
    IN  [a EXCEPT
          !.medianHistory =
              IF Len(m1) > config.globalHistoryLimit THEN Tail(m1) ELSE m1,
          !.jitterHistory =
              IF Len(j1) > config.globalHistoryLimit THEN Tail(j1) ELSE j1]

\* A timeout that leaves the candidates of both axes pending
determineStateTimeoutKeepsPending(a) ==
    LET b == [a EXCEPT !.confirmedActivity = "Offline",
                       !.confirmedNetwork = "Unknown"]
    IN  [a |-> b,
         result |->
           [activityState |-> "Offline",
            networkType |-> "Unknown",
            rawActivityState |-> "Offline",
            rawNetworkType |-> "Unknown",
            windowMedian |-> 0,
            windowJitter |-> 0,
            magnitudeThreshold |-> getEffectiveMagnitudeThreshold(b),
            jitterThreshold |-> b.cachedJitterThreshold,
            activityPending |-> FALSE,
            activityProgress |-> 0,
            networkPending |-> FALSE,
            networkProgress |-> 0,
            confidenceLevel |-> getConfidenceLevel(b),
            observedTransitions |-> b.observedTransitions]]

\* determineState(currentState, true)
determineStateTimeout(a) ==
    LET b == [a EXCEPT !.confirmedActivity = "Offline",
                       !.confirmedNetwork = "Unknown",
                       !.pendingActivity = Null,
                       !.pendingNetwork = Null,
                       !.activityWindowCount = 0,
                       !.networkWindowCount = 0]
    IN  [a |-> b,
         result |->
           [activityState |-> "Offline",
            networkType |-> "Unknown",
            rawActivityState |-> "Offline",
            rawNetworkType |-> "Unknown",
            windowMedian |-> 0,
            windowJitter |-> 0,
            magnitudeThreshold |-> getEffectiveMagnitudeThreshold(b),
            jitterThreshold |-> b.cachedJitterThreshold,
            activityPending |-> FALSE,
            activityProgress |-> 0,
            networkPending |-> FALSE,
            networkProgress |-> 0,
            confidenceLevel |-> getConfidenceLevel(b),
            observedTransitions |-> b.observedTransitions]]

\* The result returned while the window is short.
calibratingResult ==
    [activityState |-> "Calibrating",
     networkType |-> "Unknown",
     rawActivityState |-> "Calibrating",
     rawNetworkType |-> "Unknown",
     windowMedian |-> 0,
     windowJitter |-> 0,
     magnitudeThreshold |-> Fx(fixedMagnitudeThreshold),
     jitterThreshold |-> 0,
     activityPending |-> FALSE,
     activityProgress |-> 0,
     networkPending |-> FALSE,
     networkProgress |-> 0,
     confidenceLevel |-> "Low",
     observedTransitions |-> 0]

\* "If previously offline but now getting data, reset to calibrating"
\* A return from Offline that starts the analyzer afresh
leaveOfflineResets(a, currentState) ==
    IF currentState = "Offline" THEN reset(a) ELSE a

leaveOffline(a, currentState) ==
    IF currentState = "Offline" /\ a.confirmedActivity = "Offline"
    THEN [a EXCEPT !.confirmedActivity = "Calibrating",
                   !.confirmedNetwork = "Unknown"]
    ELSE a

\* "First valid classification - set initial confirmed states"
firstClassification(a, rawActivityState, rawNetworkType) ==
    LET b == IF a.confirmedActivity = "Calibrating"
             THEN [a EXCEPT !.confirmedActivity = rawActivityState]
             ELSE a
    IN  IF b.confirmedNetwork = "Unknown" /\ b.cachedJitterThreshold > 0
        THEN [b EXCEPT !.confirmedNetwork = rawNetworkType]
        ELSE b

\* "Two-dimensional classification (raw/immediate)"
rawActivityOf(median, effectiveThreshold) ==
    LET isHighMagnitude == median >= effectiveThreshold
    IN  IF isHighMagnitude THEN "Standby" ELSE "Online"

rawNetworkOf(a, jitter) ==
    LET isHighJitter == IF a.cachedJitterThreshold > 0
                        THEN jitter >= a.cachedJitterThreshold
                        ELSE FALSE
    IN  IF isHighJitter THEN "LTE" ELSE "Wi-Fi"

\* The result determineState returns after a classification, a: the analyzer then
classifiedResult(a, windowStats, rawActivityState, rawNetworkType, effectiveThreshold, t) ==
    [activityState |-> a.confirmedActivity,
     networkType |-> a.confirmedNetwork,
     rawActivityState |-> rawActivityState,
     rawNetworkType |-> rawNetworkType,
     windowMedian |-> windowStats.median,
     windowJitter |-> windowStats.jitter,
     magnitudeThreshold |-> effectiveThreshold,
     jitterThreshold |-> a.cachedJitterThreshold,
     activityPending |-> a.pendingActivity # Null,
     activityProgress |-> getActivityProgress(a, t),
     networkPending |-> a.pendingNetwork # Null,
     networkProgress |-> getNetworkProgress(a, t),
     confidenceLevel |-> getConfidenceLevel(a),
     observedTransitions |-> a.observedTransitions]

\* The two confirmation updates, then the first classification
confirmed(a, rawActivityState, rawNetworkType, t) ==
    firstClassification(
        updateNetworkConfirmation(
            updateActivityConfirmation(a, rawActivityState, t),
            rawNetworkType, t),
        rawActivityState, rawNetworkType)

\* determineState from the raw classification on, a: the analyzer before it
confirmAndReturn(a, windowStats, rawActivityState, rawNetworkType, effectiveThreshold, t) ==
    LET c == confirmed(a, rawActivityState, rawNetworkType, t)
    IN  [a |-> c,
         result |-> classifiedResult(c, windowStats, rawActivityState,
                                     rawNetworkType, effectiveThreshold, t)]

\* determineState from the effective threshold on
classifyWith(a, windowStats, effectiveThreshold, t) ==
    confirmAndReturn(a, windowStats,
                     rawActivityOf(windowStats.median, effectiveThreshold),
                     rawNetworkOf(a, windowStats.jitter),
                     effectiveThreshold, t)

\* determineState from the threshold update on
thresholdAndClassify(a, windowStats, t) ==
    classifyWith(a, windowStats, getEffectiveMagnitudeThreshold(a), t)

\* determineState(currentState, false) at time t with a full enough window
classify(a0, windowStats, t) ==
    thresholdAndClassify(
        updateAdaptiveThresholds(
            pushHistory(detectTransition(a0, windowStats.median), windowStats)),
        windowStats, t)

\* [a |-> the analyzer afterwards, result |-> the StateAnalysisResult returned]
determineState(a, currentState, isTimeout, t) ==
    IF isTimeout THEN determineStateTimeout(a)
    ELSE LET a0 == leaveOffline(a, currentState)
             windowStats == calculateWindowStats(a0)
         IN  IF windowStats.isNull
             THEN [a |-> a0, result |-> calibratingResult]
             ELSE classify(a0, windowStats, t)

-----------------------------------------------------------------------------
(* Bounds of the model and the environment's choices *)

MaxProbes == 2          \* probes sent in a run of Spec
MaxStarts == 1          \* probe loops started in a run of Spec
MaxTicks == 3           \* clock advances in a run of Spec
MaxSamples == 16        \* ACKs in a run of SpecAnalyzer
MaxChanges == 2         \* changes of the path's round-trip time in SpecAnalyzer
MaxAnalyzerTicks == 2   \* clock advances in a run of SpecAnalyzer
MaxOfflineSamples == 11 \* ACKs in a run of SpecOffline
MaxOfflineTicks == 1    \* clock advances in a run of SpecOffline
MaxTimeouts == 3        \* consecutive probe timeouts in a run of SpecOffline
MaxOfflineChanges == 1  \* changes of the path's round-trip time in SpecOffline
TickMs == 5000          \* one clock advance, in ms
MaxEngineSamples == 11  \* valid samples given in a run of SpecEngine
MaxEvaluations == 3     \* window evaluations in a run of SpecEngine
MaxEngineTicks == 1     \* clock advances in a run of SpecEngine
MaxEngineChanges == 1   \* changes of the path's round-trip time in SpecEngine
MaxWindowSamples == 27  \* valid samples given in a run of SpecWindow
MaxWindowChanges == 2   \* changes of the path's round-trip time in SpecWindow
MaxConfidenceSamples == 18    \* ACKs in a run of SpecConfidence
MaxConfidenceChanges == 8     \* path changes in a run of SpecConfidence

MaxHistorySamples == 30       \* ACKs in a run of SpecHistory
MaxHistoryChanges == 2        \* path changes in a run of SpecHistory
MaxHistoryTicks == 1          \* clock advances in a run of SpecHistory
SmallHistoryLimit == 10       \* a GLOBAL_HISTORY_LIMIT of the environment

MaxStatSamples == 11          \* valid samples in a run of SpecStats
MaxStatEvaluations == 1       \* window evaluations in a run of SpecStats
MaxTransitionSamples == 14    \* ACKs in a run of SpecTransitions
MaxTransitionChanges == 4     \* path changes in a run of SpecTransitions
MaxTransitionTimeouts == 3    \* consecutive probe timeouts in SpecTransitions
MaxDeviceSamples == 11        \* ACKs in a run of SpecDevices
MaxDeviceChanges == 1         \* path changes in a run of SpecDevices
MaxProgressSamples == 14      \* ACKs in a run of SpecProgress
MaxProgressChanges == 3       \* path changes in a run of SpecProgress
MaxProgressSteps == 3         \* clock steps in a run of SpecProgress
ProgressStepMs == 2000        \* a clock step of SpecProgress, in ms

MaxRestartStarts == 2         \* probe loops started in a run of SpecRestart
MaxRestartProbes == 3         \* probes sent in a run of SpecRestart
MaxRestartTicks == 2          \* clock advances in a run of SpecRestart

MaxPendingProbes == 2         \* probes sent in a run of SpecPending
MaxPendingTicks == 1          \* clock advances without an armed timer in SpecPending

MaxEndpointSamples == 7       \* ACKs in a run of SpecEndpoints
MaxEndpointTimeouts == 3      \* consecutive probe timeouts in SpecEndpoints

MaxRequests == 3              \* add-contact requests in a run of SpecServer
MaxSockets == 2               \* sockets connectToWhatsApp makes in a run of SpecServer

MaxLongSamples == 53          \* ACKs in a run of SpecLong
MaxLongChanges == 1           \* path changes in a run of SpecLong
Target == "T@s.whatsapp.net"        \* targetJid
Device == "T:22@s.whatsapp.net"     \* a device JID of the target's number
Other == "L@lid"                    \* another identifier (e.g. a LID)
Jids == {Target, Device, Other}

\* `${fromJid.split('@')[0].split(':')[0]}@s.whatsapp.net`
baseJid(jid) == IF jid = Device THEN Target
                ELSE IF jid = Other THEN "L@s.whatsapp.net"
                ELSE jid

Jitters == {0, 99}                  \* Math.floor(Math.random() * 100)
CLIENT_ACK == 3
SERVER_ACK == 2

\* Round-trip times of the network path, in ms: below and at
\* fixedMagnitudeThreshold, 25% apart (transitionThresholdPercent)
Rtts == {640, 800}
InitialRtt == CHOOSE r \in Rtts : \A q \in Rtts : r <= q

\* The 'messages.update' updates the socket delivers: <<remoteJid, fromMe, status>>
UpdateKinds == {<<Target, TRUE, CLIENT_ACK>>, <<Target, TRUE, SERVER_ACK>>,
                <<Target, FALSE, CLIENT_ACK>>, <<Other, TRUE, CLIENT_ACK>>}

\* The 'CB:receipt' nodes the socket delivers: <<from, type>>
ReceiptKinds == {<<Device, "inactive">>, <<Other, "inactive">>,
                 <<Device, "delivery">>}

NoResult == <<>>

\* op: the handler; id, jid, arg: its inputs; rtt: the RTT it measured;
\* emitted: its calls of onUpdate; ret: what it returned or decided.
Event(op, id, jid, arg, rtt, emitted, ret) ==
    [op |-> op, id |-> id, jid |-> jid, arg |-> arg, rtt |-> rtt,
     emitted |-> emitted, ret |-> ret]

-----------------------------------------------------------------------------
(* WhatsAppTracker: the handlers as functions of the state they touch *)

newDeviceMetrics(rtt, t, timeouts) ==
    [rttHistory |-> <<>>,
     activityState |-> "Calibrating",
     networkType |-> "Unknown",
     lastRtt |-> rtt,
     lastUpdate |-> t,
     consecutiveTimeouts |-> timeouts,
     lastAnalysis |-> NoResult]

\* dm with jid's entry set to m (Map.set)
setMetrics(dm, jid, m) ==
    [j \in DOMAIN dm \cup {jid} |-> IF j = jid THEN m ELSE dm[j]]

\* A timeout that publishes Offline at once, without counting to three
handleProbeTimeoutOfflineAtOnce(dm, jid, timeout, t) ==
    IF jid \notin DOMAIN dm
    THEN setMetrics(dm, jid, newDeviceMetrics(timeout, t, 1))
    ELSE setMetrics(dm, jid,
                    [dm[jid] EXCEPT !.consecutiveTimeouts = @ + 1,
                                    !.lastRtt = timeout,
                                    !.lastUpdate = t,
                                    !.activityState = "Offline",
                                    !.networkType = "Unknown"])

\* handleProbeTimeout(jid, timeout) up to sendUpdate(): the deviceMetrics afterwards
handleProbeTimeout(dm, jid, timeout, t) ==
    IF jid \notin DOMAIN dm
    THEN setMetrics(dm, jid, newDeviceMetrics(timeout, t, 1))
    ELSE LET m1 == [dm[jid] EXCEPT !.consecutiveTimeouts = @ + 1,
                                   !.lastRtt = timeout,
                                   !.lastUpdate = t]
             m2 == IF m1.consecutiveTimeouts >= 3
                   THEN [m1 EXCEPT !.activityState = "Offline",
                                   !.networkType = "Unknown"]
                   ELSE m1
         IN  setMetrics(dm, jid, m2)

\* The metrics m with the analysis r.result stored in them
storeAnalysis(m, r) ==
    [m |-> [m EXCEPT !.activityState = r.result.activityState,
                     !.networkType = r.result.networkType,
                     !.lastAnalysis = <<r.result>>],
     a |-> r.a]

\* determineDeviceState(jid): [m |-> the metrics, a |-> the analyzer] afterwards
determineDeviceState(m, a, t) ==
    storeAnalysis(m, determineState(a, m.activityState, FALSE, t))

\* A reset of consecutiveTimeouts that only an RTT in range earns
addMeasurementForDeviceResetsInRange(dm, a, jid, rtt, t) ==
    LET m0 == IF jid \in DOMAIN dm THEN dm[jid] ELSE newDeviceMetrics(rtt, t, 0)
        m1 == IF rtt > 0 /\ rtt <= offlineThreshold
              THEN [m0 EXCEPT !.consecutiveTimeouts = 0] ELSE m0
    IN  IF rtt <= offlineThreshold
        THEN LET pushed == Append(m1.rttHistory, rtt)
                 m2 == [m1 EXCEPT !.rttHistory =
                            IF Len(pushed) > deviceHistoryLimit
                            THEN Tail(pushed) ELSE pushed]
                 a1 == addMeasurement(a, rtt).a
                 m3 == [m2 EXCEPT !.lastRtt = rtt, !.lastUpdate = t]
                 d == determineDeviceState(m3, a1, t)
             IN  [dm |-> setMetrics(dm, jid, d.m), a |-> d.a]
        ELSE [dm |-> setMetrics(dm, jid,
                        [m1 EXCEPT !.activityState = "Standby",
                                   !.networkType = "Unknown",
                                   !.lastRtt = rtt,
                                   !.lastUpdate = t]),
              a |-> a]

\* addMeasurementForDevice(jid, rtt) up to sendUpdate():
\* [dm |-> deviceMetrics, a |-> rttAnalyzer] afterwards
addMeasurementForDevice(dm, a, jid, rtt, t) ==
    LET m0 == IF jid \in DOMAIN dm THEN dm[jid] ELSE newDeviceMetrics(rtt, t, 0)
        m1 == [m0 EXCEPT !.consecutiveTimeouts = 0]
    IN  IF rtt <= offlineThreshold
        THEN LET pushed == Append(m1.rttHistory, rtt)
                 m2 == [m1 EXCEPT !.rttHistory =
                            IF Len(pushed) > deviceHistoryLimit
                            THEN Tail(pushed) ELSE pushed]
                 a1 == addMeasurement(a, rtt).a
                 m3 == [m2 EXCEPT !.lastRtt = rtt, !.lastUpdate = t]
                 d == determineDeviceState(m3, a1, t)
             IN  [dm |-> setMetrics(dm, jid, d.m), a |-> d.a]
        ELSE [dm |-> setMetrics(dm, jid,
                        [m1 EXCEPT !.activityState = "Standby",
                                   !.networkType = "Unknown",
                                   !.lastRtt = rtt,
                                   !.lastUpdate = t]),
              a |-> a]

\* if (startTime): the probe is pending (a start time of 0 would be falsy)
isPending(starts, msgId) == msgId \in DOMAIN starts /\ starts[msgId] # 0

\* A Map.delete that removes nothing
deleteKeyKeeps(f, k) == f

\* f without the key k (Map.delete)
deleteKey(f, k) == [x \in DOMAIN f \ {k} |-> f[x]]

\* The timer handle that setTimeout returns; the callback's closure holds
\* result.key.id, startTime, result.key.remoteJid and the probe method.
timerHandle(msgId, startTime, method, deadline) ==
    [id |-> msgId, startTime |-> startTime, remoteJid |-> Target,
     method |-> method, deadline |-> deadline]

-----------------------------------------------------------------------------
(* History: what the code did, recorded where it does it *)

\* addMeasurement(rtt) was called: the valid samples given since construction
\* or reset(), in arrival order
observeGiven(o, rtt) ==
    IF rtt > 0 /\ rtt <= maxValidRtt
    THEN [o EXCEPT !.given = Append(@, rtt)]
    ELSE o

\* determineState took the analyzer from a to b and returned result: the
\* medians appended to medianHistory since updateAdaptiveThresholds last
\* recomputed (it then records the length in lastThresholdUpdateSize);
\* counted: that number as this evaluation's updateAdaptiveThresholds met it
observeEvaluation(o, a, b, result) ==
    IF result.rawActivityState \in {"Calibrating", "Offline"} THEN o
    ELSE LET pushed == Append(a.medianHistory, result.windowMedian)
             appendedNow == IF b.medianHistory \in {pushed, Tail(pushed)}
                            THEN 1 ELSE 0
         IN  [o EXCEPT !.counted = o.appended + appendedNow,
                       !.appended =
                 IF b.lastThresholdUpdateSize # a.lastThresholdUpdateSize
                 THEN 0 ELSE @ + appendedNow]

\* addMeasurementForDevice(jid, rtt) took deviceMetrics dm and the analyzer a
\* to r.dm and r.a
observeAck(o, dm, a, r, jid, rtt) ==
    LET o1 == [o EXCEPT !.found = IF jid \in DOMAIN dm
                                  THEN dm[jid].consecutiveTimeouts ELSE 0]
    IN  IF rtt <= offlineThreshold
        THEN observeEvaluation(observeGiven(o1, rtt), addMeasurement(a, rtt).a,
                               r.a, r.dm[jid].lastAnalysis[1])
        ELSE o1

-----------------------------------------------------------------------------
(* Initial state: a tracker constructed for Target, nothing started *)

EmptyMap == [x \in {} |-> 0]

\* The state after construction when getConfig() read the history limit
Constructed(historyLimit) ==
    /\ config = [globalHistoryLimit |-> historyLimit]
    /\ sock = 0
    /\ connecting = TRUE
    /\ trackers = EmptyMap
    /\ instances = <<>>
    /\ requests = <<>>
    /\ rttAnalyzer = newRttAnalyzer
    /\ isTracking = FALSE
    /\ probeMethod = "delete"
    /\ trackedJids = {Target}
    /\ deviceMetrics = EmptyMap
    /\ probeStartTimes = EmptyMap
    /\ probeTimeouts = EmptyMap
    /\ lastPresence = Null
    /\ listeners = [messagesUpdateListener |-> FALSE,
                    presenceUpdateListener |-> FALSE,
                    onMessagesUpdate |-> 0,
                    onPresenceUpdate |-> 0,
                    onReceipt |-> 0]
    /\ timers = {}
    /\ loops = <<>>
    /\ nextMsgId = 0
    /\ crashed = FALSE
    /\ now = TickMs
    /\ link = [rtt |-> InitialRtt, changes |-> 0]
    /\ lastEvent = Event("init", 0, Null, <<>>, 0, 0, NoResult)
    /\ forwarded = [id \in {} |-> 0]
    /\ expired = {}
    /\ timeoutsSinceAck = [j \in Jids |-> 0]
    /\ observed = [given |-> <<>>, appended |-> 0, counted |-> 0, found |-> 0]

\* No GLOBAL_HISTORY_LIMIT in the environment: the default
Init == Constructed(globalHistoryLimit)

-----------------------------------------------------------------------------
(* The probe loop *)

\* sendProbe() up to its await of sock.sendMessage, or the loop's exit:
\* the activation k afterwards.  The delete probe reads the clock before
\* the send, the reaction probe after it.
enterLoop(k) ==
    IF isTracking
    THEN /\ loops' = [loops EXCEPT ![k] =
                        [pc |-> "sending", method |-> probeMethod,
                         startTime |-> IF probeMethod = "delete" THEN now ELSE 0,
                         msgId |-> nextMsgId + 1, wakeAt |-> 0]]
         /\ nextMsgId' = nextMsgId + 1
    ELSE /\ loops' = [loops EXCEPT ![k] = [@ EXCEPT !.pc = "done"]]
         /\ nextMsgId' = nextMsgId

suspended(pc) ==
    [pc |-> pc, method |-> Null, startTime |-> 0, msgId |-> 0, wakeAt |-> 0]

\* startTracking() up to its await of presenceSubscribe
StartTracking(maxStarts) ==
    /\ ~crashed
    /\ isTracking \/ Len(loops) < maxStarts
    /\ IF isTracking
       THEN /\ UNCHANGED <<isTracking, listeners, loops>>
            /\ lastEvent' = Event("startTracking", 0, Null, <<>>, 0, 0, <<FALSE>>)
       ELSE /\ isTracking' = TRUE
            /\ listeners' = [listeners EXCEPT
                    !.messagesUpdateListener = TRUE,
                    !.presenceUpdateListener = TRUE,
                    !.onMessagesUpdate = @ + 1,
                    !.onPresenceUpdate = @ + 1,
                    !.onReceipt = @ + 1]
            /\ loops' = Append(loops, suspended("subscribing"))
            /\ lastEvent' = Event("startTracking", 0, Null, <<>>, 0, 0, <<TRUE>>)
    /\ UNCHANGED <<rttAnalyzer, probeMethod, trackedJids, deviceMetrics,
                   probeStartTimes, probeTimeouts, lastPresence, timers,
                   nextMsgId, crashed, now, link, config, serverVars,
                   historyVars>>

\* startTracking() resumed: the initial update, then probeLoop() up to its
\* first await
SubscribeDone(k, maxProbes) ==
    /\ ~crashed
    /\ k \in DOMAIN loops
    /\ loops[k].pc = "subscribing"
    /\ ~isTracking \/ nextMsgId < maxProbes
    /\ enterLoop(k)
    /\ lastEvent' = Event("initialUpdate", k, Null, <<>>, 0, 1, NoResult)
    /\ UNCHANGED <<rttAnalyzer, isTracking, probeMethod, trackedJids,
                   deviceMetrics, probeStartTimes, probeTimeouts, lastPresence,
                   listeners, timers, crashed, now, link, config, serverVars,
                   historyVars>>

\* A send whose failure is registered as a pending probe all the same
SendDoneRegistersFailed(k, ok, jitter) ==
    /\ ~crashed
    /\ k \in DOMAIN loops
    /\ loops[k].pc = "sending"
    /\ LET l == loops[k]
           startTime == IF l.method = "delete" THEN l.startTime ELSE now
           delay == IF l.method = "delete" THEN 10000 ELSE probeTimeout
           h == timerHandle(l.msgId, startTime, l.method, now + delay)
       IN  /\ IF ok \/ ~ok
              THEN /\ probeStartTimes' =
                        [id \in DOMAIN probeStartTimes \cup {l.msgId} |->
                           IF id = l.msgId THEN startTime ELSE probeStartTimes[id]]
                   /\ probeTimeouts' =
                        [id \in DOMAIN probeTimeouts \cup {l.msgId} |->
                           IF id = l.msgId THEN h ELSE probeTimeouts[id]]
                   /\ timers' = timers \cup {h}
                   /\ forwarded' =
                        [id \in DOMAIN forwarded \cup {l.msgId} |->
                           IF id = l.msgId THEN 0 ELSE forwarded[id]]
              ELSE UNCHANGED <<probeStartTimes, probeTimeouts, timers, forwarded>>
           /\ loops' = [loops EXCEPT ![k] =
                 [suspended("sleeping") EXCEPT
                    !.wakeAt = now + probeIntervalDefault + jitter]]
           /\ lastEvent' = Event("sendDone", l.msgId, Target, <<l.method>>, 0, 0, <<ok>>)
    /\ UNCHANGED <<rttAnalyzer, isTracking, probeMethod, trackedJids,
                   deviceMetrics, lastPresence, listeners, nextMsgId, crashed,
                   now, link, config, serverVars, expired, timeoutsSinceAck, observed>>

\* sendDeleteProbe() / sendReactionProbe() resumed with the send's result
\* (ok: a message with an id; otherwise the send threw or gave no id), then
\* probeLoop() up to its await of the inter-probe delay
SendDone(k, ok, jitter) ==
    /\ ~crashed
    /\ k \in DOMAIN loops
    /\ loops[k].pc = "sending"
    /\ LET l == loops[k]
           startTime == IF l.method = "delete" THEN l.startTime ELSE now
           delay == IF l.method = "delete" THEN 10000 ELSE probeTimeout
           h == timerHandle(l.msgId, startTime, l.method, now + delay)
       IN  /\ IF ok
              THEN /\ probeStartTimes' =
                        [id \in DOMAIN probeStartTimes \cup {l.msgId} |->
                           IF id = l.msgId THEN startTime ELSE probeStartTimes[id]]
                   /\ probeTimeouts' =
                        [id \in DOMAIN probeTimeouts \cup {l.msgId} |->
                           IF id = l.msgId THEN h ELSE probeTimeouts[id]]
                   /\ timers' = timers \cup {h}
                   /\ forwarded' =
                        [id \in DOMAIN forwarded \cup {l.msgId} |->
                           IF id = l.msgId THEN 0 ELSE forwarded[id]]
              ELSE UNCHANGED <<probeStartTimes, probeTimeouts, timers, forwarded>>
           /\ loops' = [loops EXCEPT ![k] =
                 [suspended("sleeping") EXCEPT
                    !.wakeAt = now + probeIntervalDefault + jitter]]
           /\ lastEvent' = Event("sendDone", l.msgId, Target, <<l.method>>, 0, 0, <<ok>>)
    /\ UNCHANGED <<rttAnalyzer, isTracking, probeMethod, trackedJids,
                   deviceMetrics, lastPresence, listeners, nextMsgId, crashed,
                   now, link, config, serverVars, expired, timeoutsSinceAck, observed>>

\* probeLoop() resumed after the delay: the while condition, then the next send
LoopWake(k, maxProbes) ==
    /\ ~crashed
    /\ k \in DOMAIN loops
    /\ loops[k].pc = "sleeping"
    /\ now >= loops[k].wakeAt
    /\ ~isTracking \/ nextMsgId < maxProbes
    /\ enterLoop(k)
    /\ lastEvent' = Event("loopWake", k, Null, <<>>, 0, 0, NoResult)
    /\ UNCHANGED <<rttAnalyzer, isTracking, probeMethod, trackedJids,
                   deviceMetrics, probeStartTimes, probeTimeouts, lastPresence,
                   listeners, timers, crashed, now, link, config, serverVars,
                   historyVars>>

-----------------------------------------------------------------------------
(* Timers, acknowledgements and the public methods *)

\* The callback of a probe's timer.  The delete probe's callback calls
\* this.markDeviceOffline, which the class does not define: the call throws a
\* TypeError out of the callback, after the two deletes.
TimerFire(h) ==
    /\ ~crashed
    /\ h \in timers
    /\ now >= h.deadline
    /\ timers' = timers \ {h}
    /\ IF h.id \in DOMAIN probeStartTimes
       THEN LET elapsedTime == now - h.startTime
            IN  /\ probeStartTimes' = deleteKey(probeStartTimes, h.id)
                /\ probeTimeouts' = deleteKey(probeTimeouts, h.id)
                /\ expired' = expired \cup {h.id}
                /\ timeoutsSinceAck' =
                     [timeoutsSinceAck EXCEPT ![h.remoteJid] = @ + 1]
                /\ IF h.method = "reaction"
                   THEN /\ deviceMetrics' = handleProbeTimeout(
                                deviceMetrics, h.remoteJid, elapsedTime, now)
                        /\ crashed' = FALSE
                        /\ lastEvent' = Event("timeout", h.id, h.remoteJid,
                                <<h.method>>, elapsedTime, 1, <<"handled">>)
                   ELSE /\ deviceMetrics' = deviceMetrics
                        /\ crashed' = TRUE
                        /\ lastEvent' = Event("timeout", h.id, h.remoteJid,
                                <<h.method>>, elapsedTime, 0, <<"TypeError">>)
       ELSE /\ UNCHANGED <<probeStartTimes, probeTimeouts, expired,
                           timeoutsSinceAck, deviceMetrics, crashed>>
            /\ lastEvent' = Event("timeout", h.id, h.remoteJid,
                                <<h.method>>, 0, 0, <<"stale">>)
    /\ UNCHANGED <<rttAnalyzer, isTracking, probeMethod, trackedJids,
                   lastPresence, listeners, loops, nextMsgId, now, link, config, serverVars,
                   forwarded, observed>>

\* processAck when probeStartTimes has no start time for msgId: it returns
NotPendingEmits(op, msgId, fromJid, arg) ==
    /\ UNCHANGED <<timers, probeTimeouts, probeStartTimes, deviceMetrics,
                   rttAnalyzer, forwarded, timeoutsSinceAck, observed>>
    /\ lastEvent' = Event(op, msgId, fromJid, arg, 0, 1, <<"unknown">>)

NotPending(op, msgId, fromJid, arg) ==
    /\ UNCHANGED <<timers, probeTimeouts, probeStartTimes, deviceMetrics,
                   rttAnalyzer, forwarded, timeoutsSinceAck, observed>>
    /\ lastEvent' = Event(op, msgId, fromJid, arg, 0, 0, <<"unknown">>)

\* processAck(msgId, fromJid, type), reached from the handler op with input arg
ProcessAck(op, msgId, fromJid, arg) ==
    IF isPending(probeStartTimes, msgId)
    THEN LET rtt == now - probeStartTimes[msgId]
             r == addMeasurementForDevice(deviceMetrics, rttAnalyzer,
                                          fromJid, rtt, now)
         IN  /\ timers' = IF msgId \in DOMAIN probeTimeouts
                          THEN timers \ {probeTimeouts[msgId]} ELSE timers
             /\ probeTimeouts' = deleteKey(probeTimeouts, msgId)
             /\ probeStartTimes' = deleteKey(probeStartTimes, msgId)
             /\ deviceMetrics' = r.dm
             /\ rttAnalyzer' = r.a
             /\ forwarded' = [forwarded EXCEPT ![msgId] = @ + 1]
             /\ timeoutsSinceAck' = [timeoutsSinceAck EXCEPT ![fromJid] = 0]
             /\ observed' = observeAck(observed, deviceMetrics, rttAnalyzer,
                                       r, fromJid, rtt)
             /\ lastEvent' = Event(op, msgId, fromJid, arg, rtt, 1, <<"acked">>)
    ELSE NotPending(op, msgId, fromJid, arg)

\* A filter that lets every update through to processAck
IgnoredForwards(op, msgId, fromJid, arg) == ProcessAck(op, msgId, fromJid, arg)

Ignored(op, msgId, fromJid, arg) ==
    /\ UNCHANGED <<timers, probeTimeouts, probeStartTimes, deviceMetrics,
                   rttAnalyzer, forwarded, timeoutsSinceAck, observed>>
    /\ lastEvent' = Event(op, msgId, fromJid, arg, 0, 0, <<"ignored">>)

\* One update of a 'messages.update' event: messagesUpdateListener, analyzeUpdate
MessagesUpdate(msgId, remoteJid, fromMe, status) ==
    /\ ~crashed
    /\ listeners.onMessagesUpdate > 0
    /\ IF remoteJid \in trackedJids /\ fromMe /\ status = CLIENT_ACK
       THEN ProcessAck("messagesUpdate", msgId, remoteJid, <<fromMe, status>>)
       ELSE Ignored("messagesUpdate", msgId, remoteJid, <<fromMe, status>>)
    /\ UNCHANGED <<isTracking, probeMethod, trackedJids, lastPresence,
                   listeners, loops, nextMsgId, crashed, now, link, config, serverVars,
                   expired>>

\* A 'CB:receipt' node: handleRawReceipt.  Every listener startTracking has
\* registered runs; after the first, the probe is no longer pending.
RawReceipt(msgId, from, type) ==
    /\ ~crashed
    /\ listeners.onReceipt > 0
    /\ IF type = "inactive"
          /\ (from \in trackedJids \/ baseJid(from) \in trackedJids)
       THEN ProcessAck("rawReceipt", msgId, from, <<type>>)
       ELSE Ignored("rawReceipt", msgId, from, <<type>>)
    /\ UNCHANGED <<isTracking, probeMethod, trackedJids, lastPresence,
                   listeners, loops, nextMsgId, crashed, now, link, config, serverVars,
                   expired>>

\* A 'presence.update' event whose first presence entry is jid's
PresenceUpdate(jid) ==
    /\ ~crashed
    /\ listeners.onPresenceUpdate > 0
    /\ trackedJids' = trackedJids \cup {jid}
    /\ lastPresence' = "available"
    /\ lastEvent' = Event("presenceUpdate", 0, jid, <<>>, 0, 0, NoResult)
    /\ UNCHANGED <<rttAnalyzer, isTracking, probeMethod, deviceMetrics,
                   probeStartTimes, probeTimeouts, listeners, timers, loops,
                   nextMsgId, crashed, now, link, config, serverVars,
                   historyVars>>

SetProbeMethod(method) ==
    /\ ~crashed
    /\ probeMethod' = method
    /\ lastEvent' = Event("setProbeMethod", 0, Null, <<method>>, 0, 0, NoResult)
    /\ UNCHANGED <<rttAnalyzer, isTracking, trackedJids, deviceMetrics,
                   probeStartTimes, probeTimeouts, lastPresence, listeners,
                   timers, loops, nextMsgId, crashed, now, link, config, serverVars,
                   historyVars>>

StopTracking ==
    /\ ~crashed
    /\ isTracking' = FALSE
    /\ listeners' = [listeners EXCEPT
            !.messagesUpdateListener = FALSE,
            !.presenceUpdateListener = FALSE,
            !.onMessagesUpdate =
                IF listeners.messagesUpdateListener THEN @ - 1 ELSE @,
            !.onPresenceUpdate =
                IF listeners.presenceUpdateListener THEN @ - 1 ELSE @]
    /\ timers' = timers \ {probeTimeouts[id] : id \in DOMAIN probeTimeouts}
    /\ probeTimeouts' = EmptyMap
    /\ probeStartTimes' = EmptyMap
    /\ rttAnalyzer' = reset(rttAnalyzer)
    /\ lastEvent' = Event("stopTracking", 0, Null, <<>>, 0, 0, NoResult)
    /\ observed' = [observed EXCEPT !.given = <<>>, !.appended = 0, !.counted = 0]
    /\ UNCHANGED <<probeMethod, trackedJids, deviceMetrics, lastPresence,
                   loops, nextMsgId, crashed, now, link, config, serverVars,
                   forwarded, expired, timeoutsSinceAck>>

\* The clock advances; the runtime runs a timer's callback when it is due,
\* before the clock moves on
Tick(maxTicks) ==
    /\ ~crashed
    /\ now < TickMs * (maxTicks + 1)
    /\ \A h \in timers : now < h.deadline
    /\ now' = now + TickMs
    /\ lastEvent' = Event("tick", 0, Null, <<>>, 0, 0, NoResult)
    /\ UNCHANGED <<rttAnalyzer, trackerVars, link, historyVars, config, serverVars>>

-----------------------------------------------------------------------------
(* Spec: the tracker with its analyzer, every interleaving, a few probes *)

Next ==
    \/ StartTracking(MaxStarts)
    \/ \E k \in 1..MaxStarts : SubscribeDone(k, MaxProbes)
    \/ \E k \in 1..MaxStarts, ok \in BOOLEAN, jitter \in Jitters :
          SendDone(k, ok, jitter)
    \/ \E k \in 1..MaxStarts : LoopWake(k, MaxProbes)
    \/ \E h \in timers : TimerFire(h)
    \/ \E id \in 1..MaxProbes, u \in UpdateKinds :
          MessagesUpdate(id, u[1], u[2], u[3])
    \/ \E id \in 1..MaxProbes, r \in ReceiptKinds : RawReceipt(id, r[1], r[2])
    \/ PresenceUpdate(Other)
    \/ \E method \in {"delete", "reaction"} : SetProbeMethod(method)
    \/ StopTracking
    \/ Tick(MaxTicks)

Spec == Init /\ [][Next]_vars

-----------------------------------------------------------------------------
(* SpecAnalyzer: the measurement pipeline behind processAck, the round-trip  *)
(* time of each acknowledged probe given by the network path instead of the  *)
(* probe table, so that the window fills and is classified                   *)

\* Samples the analyzer has accepted or discarded since it was constructed
samplesTaken == rttAnalyzer.discardedSampleCount + Len(rttAnalyzer.slidingWindow)

\* processAck for a pending probe of the target, rtt = Date.now() - startTime
\* being the path's round-trip time: addMeasurementForDevice and its update
AckDelivered(maxSamples) ==
    /\ samplesTaken < maxSamples
    /\ Target \in DOMAIN deviceMetrics =>
          Len(deviceMetrics[Target].rttHistory) < maxSamples
    /\ LET r == addMeasurementForDevice(deviceMetrics, rttAnalyzer, Target,
                                        link.rtt, now)
       IN  /\ deviceMetrics' = r.dm
           /\ rttAnalyzer' = r.a
    /\ timeoutsSinceAck' = [timeoutsSinceAck EXCEPT ![Target] = 0]
    /\ observed' = observeAck(observed, deviceMetrics, rttAnalyzer,
                              addMeasurementForDevice(deviceMetrics, rttAnalyzer,
                                                      Target, link.rtt, now),
                              Target, link.rtt)
    /\ lastEvent' = Event("ack", 0, Target, <<>>, link.rtt, 1, <<"acked">>)
    /\ UNCHANGED <<isTracking, probeMethod, trackedJids, probeStartTimes,
                   probeTimeouts, lastPresence, listeners, timers, loops,
                   nextMsgId, crashed, now, link, config, serverVars, forwarded, expired>>

\* The path's round-trip time becomes rtt
LatencyChange(rtt, maxChanges) ==
    /\ link.changes < maxChanges
    /\ rtt # link.rtt
    /\ link' = [rtt |-> rtt, changes |-> link.changes + 1]
    /\ lastEvent' = Event("latencyChange", 0, Null, <<>>, rtt, 0, NoResult)
    /\ UNCHANGED <<rttAnalyzer, trackerVars, now, historyVars, config, serverVars>>

\* The reaction probe's timer callback for a pending probe of the target:
\* handleProbeTimeout and its update
ProbeTimedOut(maxTimeouts) ==
    /\ timeoutsSinceAck[Target] < maxTimeouts
    /\ deviceMetrics' = handleProbeTimeout(deviceMetrics, Target, probeTimeout, now)
    /\ timeoutsSinceAck' = [timeoutsSinceAck EXCEPT ![Target] = @ + 1]
    /\ lastEvent' = Event("timeout", 0, Target, <<"reaction">>, probeTimeout, 1,
                          <<"handled">>)
    /\ UNCHANGED <<rttAnalyzer, isTracking, probeMethod, trackedJids,
                   probeStartTimes, probeTimeouts, lastPresence, listeners,
                   timers, loops, nextMsgId, crashed, now, link, config, serverVars,
                   forwarded, expired, observed>>

NextAnalyzer ==
    \/ AckDelivered(MaxSamples)
    \/ \E rtt \in Rtts : LatencyChange(rtt, MaxChanges)
    \/ Tick(MaxAnalyzerTicks)

SpecAnalyzer == Init /\ [][NextAnalyzer]_vars

-----------------------------------------------------------------------------
(* SpecOffline: the same pipeline with probe timeouts, on a steady path *)

\* Round-trip times of an acknowledged probe: 0 (the ACK in the millisecond
\* of the send), the path's, and one above offlineThreshold
OfflineRtts == {0, InitialRtt, offlineThreshold + TickMs}

NextOffline ==
    \/ AckDelivered(MaxOfflineSamples)
    \/ \E rtt \in OfflineRtts : LatencyChange(rtt, MaxOfflineChanges)
    \/ ProbeTimedOut(MaxTimeouts)
    \/ Tick(MaxOfflineTicks)

SpecOffline == Init /\ [][NextOffline]_vars

-----------------------------------------------------------------------------
(* SpecEngine: the RttAnalyzer object driven through its public methods *)

\* The round-trip times of the path a caller measures: the smallest one and
\* the largest valid one
EnginePathRtts == {InitialRtt, maxValidRtt}

\* The RTTs outside (0, 60000] a caller passes
InvalidRtts == {-1, 0, maxValidRtt + 1}

\* The published states a caller passes as currentState
EngineStates == {"Online", "Offline"}

\* rttAnalyzer.addMeasurement(rtt)
AddMeasurement(rtt, maxSamples) ==
    /\ (rtt > 0 /\ rtt <= maxValidRtt) => Len(observed.given) < maxSamples
    /\ LET r == addMeasurement(rttAnalyzer, rtt)
       IN  /\ rttAnalyzer' = r.a
           /\ lastEvent' = Event("addMeasurement", 0, Null, <<rtt>>, rtt, 0,
                                 <<r.added>>)
    /\ observed' = observeGiven(observed, rtt)
    /\ UNCHANGED <<trackerVars, now, link, config, serverVars, forwarded, expired,
                   timeoutsSinceAck>>

\* rttAnalyzer.determineState(currentState, isTimeout)
DetermineState(currentState, isTimeout, maxEvaluations) ==
    /\ isTimeout \/ Len(rttAnalyzer.jitterHistory) < maxEvaluations
    /\ LET r == determineState(rttAnalyzer, currentState, isTimeout, now)
       IN  /\ rttAnalyzer' = r.a
           /\ observed' = observeEvaluation(observed, rttAnalyzer, r.a, r.result)
           /\ lastEvent' = Event("determineState", 0, Null,
                                 <<currentState, isTimeout>>, 0, 0, <<r.result>>)
    /\ UNCHANGED <<trackerVars, now, link, config, serverVars, forwarded, expired,
                   timeoutsSinceAck>>

NextEngine ==
    \/ \E rtt \in {link.rtt} \cup InvalidRtts :
          AddMeasurement(rtt, MaxEngineSamples)
    \/ \E rtt \in EnginePathRtts : LatencyChange(rtt, MaxEngineChanges)
    \/ \E currentState \in EngineStates, isTimeout \in BOOLEAN :
          DetermineState(currentState, isTimeout, MaxEvaluations)
    \/ Tick(MaxEngineTicks)

SpecEngine == Init /\ [][NextEngine]_vars

-----------------------------------------------------------------------------
(* SpecWindow: addMeasurement alone, long enough for the window to overflow, *)
(* with the reset() that stopTracking makes                                  *)

NextWindow ==
    \/ \E rtt \in {link.rtt} \cup InvalidRtts :
          AddMeasurement(rtt, MaxWindowSamples)
    \/ \E rtt \in EnginePathRtts : LatencyChange(rtt, MaxWindowChanges)
    \/ StopTracking

SpecWindow == Init /\ [][NextWindow]_vars

-----------------------------------------------------------------------------
(* SpecConfidence: the pipeline behind processAck on a path whose round-trip *)
(* time flaps between the initial one and its double, far enough apart for   *)
(* the window median to leave its baseline by transitionThresholdPercent and *)
(* to return, so that transitions are counted and confidence rises; the     *)
(* path is steady while the analyzer discards its first samples              *)

FlapRtts == {InitialRtt, 2 * InitialRtt}

NextConfidence ==
    \/ AckDelivered(MaxConfidenceSamples)
    \/ \E rtt \in FlapRtts :
          /\ rttAnalyzer.discardedSampleCount = discardInitialSamples
          /\ LatencyChange(rtt, MaxConfidenceChanges)

SpecConfidence == Init /\ [][NextConfidence]_vars

-----------------------------------------------------------------------------
(* SpecHistory: the pipeline behind processAck, long enough for the history  *)
(* of medians to reach ten entries and its size limit, the limit being the   *)
(* default or a small GLOBAL_HISTORY_LIMIT of the environment                *)

HistoryLimits == {globalHistoryLimit, SmallHistoryLimit}

InitHistory == \E historyLimit \in HistoryLimits : Constructed(historyLimit)

NextHistory ==
    \/ AckDelivered(MaxHistorySamples)
    \/ \E rtt \in Rtts : LatencyChange(rtt, MaxHistoryChanges)
    \/ Tick(MaxHistoryTicks)

SpecHistory == InitHistory /\ [][NextHistory]_vars

-----------------------------------------------------------------------------
(* SpecStats: addMeasurement and determineState on windows of every         *)
(* composition, the samples that follow the discarded ones drawn freely      *)

StatRtts == {100, 200, 300, 400}

NextStats ==
    \/ \E rtt \in IF rttAnalyzer.discardedSampleCount < discardInitialSamples
                   THEN {link.rtt} ELSE StatRtts :
          AddMeasurement(rtt, MaxStatSamples)
    \/ \E currentState \in EngineStates :
          DetermineState(currentState, FALSE, MaxStatEvaluations)

SpecStats == Init /\ [][NextStats]_vars

-----------------------------------------------------------------------------
(* SpecTransitions: the flapping path of SpecConfidence with probe timeouts  *)
(* and stopTracking, so that the device goes Offline and comes back, and the *)
(* analyzer is reset, after transitions were counted                         *)

NextTransitions ==
    \/ AckDelivered(MaxTransitionSamples)
    \/ \E rtt \in FlapRtts :
          /\ rttAnalyzer.discardedSampleCount = discardInitialSamples
          /\ LatencyChange(rtt, MaxTransitionChanges)
    \/ ProbeTimedOut(MaxTransitionTimeouts)
    \/ StopTracking

SpecTransitions == Init /\ [][NextTransitions]_vars

-----------------------------------------------------------------------------
(* SpecDevices: the pipeline behind processAck with acknowledgements from    *)
(* two device identifiers of the target: its own JID (messages.update) and   *)
(* a device JID of its number (an 'inactive' receipt)                        *)

AckingJids == {Target, Device}

\* processAck(msgId, jid, type) for a pending probe, rtt being the path's
\* round-trip time: addMeasurementForDevice(jid, rtt) and its update
AckFrom(jid, maxSamples) ==
    /\ samplesTaken < maxSamples
    /\ jid \in trackedJids \/ baseJid(jid) \in trackedJids
    /\ LET r == addMeasurementForDevice(deviceMetrics, rttAnalyzer, jid,
                                        link.rtt, now)
       IN  /\ deviceMetrics' = r.dm
           /\ rttAnalyzer' = r.a
           /\ observed' = observeAck(observed, deviceMetrics, rttAnalyzer, r,
                                     jid, link.rtt)
    /\ timeoutsSinceAck' = [timeoutsSinceAck EXCEPT ![jid] = 0]
    /\ lastEvent' = Event("ack", 0, jid, <<>>, link.rtt, 1, <<"acked">>)
    /\ UNCHANGED <<isTracking, probeMethod, trackedJids, probeStartTimes,
                   probeTimeouts, lastPresence, listeners, timers, loops,
                   nextMsgId, crashed, now, link, config, serverVars, forwarded, expired>>

NextDevices ==
    \/ \E jid \in AckingJids : AckFrom(jid, MaxDeviceSamples)
    \/ \E rtt \in Rtts : LatencyChange(rtt, MaxDeviceChanges)

SpecDevices == Init /\ [][NextDevices]_vars

-----------------------------------------------------------------------------
(* SpecProgress: the pipeline of SpecAnalyzer under a clock that advances    *)
(* in steps shorter than stateConfirmationSeconds, so that a candidate is    *)
(* reported part of the way through its confirmation time                    *)

\* Date.now() is ms later than at the last handler, up to maxSteps times
ClockAdvance(ms, maxSteps) ==
    /\ ~crashed
    /\ now + ms <= TickMs + ms * maxSteps
    /\ \A h \in timers : now + ms <= h.deadline
    /\ now' = now + ms
    /\ lastEvent' = Event("clock", 0, Null, <<ms>>, 0, 0, NoResult)
    /\ UNCHANGED <<rttAnalyzer, trackerVars, link, historyVars, config, serverVars>>

NextProgress ==
    \/ AckDelivered(MaxProgressSamples)
    \/ \E rtt \in Rtts : LatencyChange(rtt, MaxProgressChanges)
    \/ ClockAdvance(ProgressStepMs, MaxProgressSteps)

SpecProgress == Init /\ [][NextProgress]_vars

-----------------------------------------------------------------------------
-----------------------------------------------------------------------------
(* SpecRestart: the tracker stopped and started again, its probe loops and *)
(* timers, without acknowledgements                                        *)

NextRestart ==
    \/ StartTracking(MaxRestartStarts)
    \/ \E k \in 1..MaxRestartStarts : SubscribeDone(k, MaxRestartProbes)
    \/ \E k \in 1..MaxRestartStarts, ok \in BOOLEAN, jitter \in Jitters :
          SendDone(k, ok, jitter)
    \/ \E k \in 1..MaxRestartStarts : LoopWake(k, MaxRestartProbes)
    \/ \E h \in timers : TimerFire(h)
    \/ \E method \in {"delete", "reaction"} : SetProbeMethod(method)
    \/ StopTracking
    \/ Tick(MaxRestartTicks)

SpecRestart == Init /\ [][NextRestart]_vars

-----------------------------------------------------------------------------
(* SpecPending: the tracker of Spec with a clock that goes on while a timer *)
(* is armed, and the runtime's guarantee that time passes and that a timer  *)
(* which is due has its callback run                                        *)

\* The clock advances, as long as a timer is armed or the run is young
TickWhilePending(maxTicks) ==
    /\ ~crashed
    /\ timers # {} \/ now < TickMs * (maxTicks + 1)
    /\ \A h \in timers : now < h.deadline
    /\ now' = now + TickMs
    /\ lastEvent' = Event("tick", 0, Null, <<>>, 0, 0, NoResult)
    /\ UNCHANGED <<rttAnalyzer, trackerVars, link, historyVars, config, serverVars>>

TimersFire == \E h \in timers : TimerFire(h)

NextPending ==
    \/ StartTracking(MaxStarts)
    \/ \E k \in 1..MaxStarts : SubscribeDone(k, MaxPendingProbes)
    \/ \E k \in 1..MaxStarts, ok \in BOOLEAN, jitter \in Jitters :
          SendDone(k, ok, jitter)
    \/ \E k \in 1..MaxStarts : LoopWake(k, MaxPendingProbes)
    \/ TimersFire
    \/ \E id \in 1..MaxPendingProbes, r \in ReceiptKinds :
          RawReceipt(id, r[1], r[2])
    \/ \E method \in {"delete", "reaction"} : SetProbeMethod(method)
    \/ StopTracking
    \/ TickWhilePending(MaxPendingTicks)

SpecPending ==
    /\ Init
    /\ [][NextPending]_vars
    /\ WF_vars(TickWhilePending(MaxPendingTicks))
    /\ WF_vars(TimersFire)

-----------------------------------------------------------------------------
(* SpecEndpoints: acknowledgements from the target's identifiers (its JID  *)
(* on 'messages.update', a device JID on 'CB:receipt') and timeouts of the *)
(* target's probes, which carry the JID the probe was sent to              *)

NextEndpoints ==
    \/ \E jid \in AckingJids : AckFrom(jid, MaxEndpointSamples)
    \/ ProbeTimedOut(MaxEndpointTimeouts)

SpecEndpoints == Init /\ [][NextEndpoints]_vars

-----------------------------------------------------------------------------
(* server.ts: the trackers map and the Socket.IO handlers that change it.  *)
(* A tracker instance is held by what the server sees of it: the JID it    *)
(* was made for and its isTracking flag (set by startTracking before its   *)
(* first await, cleared by stopTracking).                                  *)

\* The contact JIDs that clients ask to track
ContactJids == {Target, Other}

\* An add-contact handler: the JID of its number and where it stands
request(targetJid, pc) == [targetJid |-> targetJid, pc |-> pc]

\* tracker.stopTracking() for every instance in the set
stopInstances(is) ==
    [i \in DOMAIN instances |->
        IF i \in is THEN [instances[i] EXCEPT !.isTracking = FALSE]
        ELSE instances[i]]

\* connectToWhatsApp() resumed after useMultiFileAuthState: sock = makeWASocket()
ConnectDone(maxSockets) ==
    /\ connecting
    /\ sock < maxSockets
    /\ sock' = sock + 1
    /\ connecting' = FALSE
    /\ lastEvent' = Event("connect", sock + 1, Null, <<>>, 0, 0, NoResult)
    /\ UNCHANGED <<rttAnalyzer, trackerVars, now, link, historyVars, config,
                   trackers, instances, requests>>

\* stopAllTrackers(): every tracker in the map is stopped, the map cleared
stopAllTrackers ==
    /\ instances' = stopInstances({trackers[jid] : jid \in DOMAIN trackers})
    /\ trackers' = EmptyMap

\* 'connection.update' with connection === 'close'
ConnectionClose(shouldReconnect) ==
    /\ sock > 0
    /\ ~connecting
    /\ stopAllTrackers
    /\ connecting' = shouldReconnect
    /\ lastEvent' = Event("connectionClose", sock, Null, <<shouldReconnect>>,
                          0, 0, NoResult)
    /\ UNCHANGED <<rttAnalyzer, trackerVars, now, link, historyVars, config,
                   sock, requests>>

\* socket.on('add-contact') up to its await of sock.onWhatsApp, or its
\* early return
AddContact(valid, targetJid, maxRequests) ==
    /\ Len(requests) < maxRequests
    /\ requests' = Append(requests, request(targetJid,
            IF ~valid THEN "invalid"
            ELSE IF targetJid \in DOMAIN trackers THEN "already"
            ELSE IF sock = 0 THEN "notConnected"
            ELSE "verifying"))
    /\ lastEvent' = Event("addContact", Len(requests) + 1, targetJid,
                          <<valid>>, 0, 0, NoResult)
    /\ UNCHANGED <<rttAnalyzer, trackerVars, now, link, historyVars, config,
                   sock, connecting, trackers, instances>>

\* The handler resumed with the result of sock.onWhatsApp (exists, or not,
\* or the call threw): new WhatsAppTracker, trackers.set, startTracking()
OnWhatsAppDone(r, outcome) ==
    /\ r \in DOMAIN requests
    /\ requests[r].pc = "verifying"
    /\ IF outcome = "exists"
       THEN /\ instances' = Append(instances,
                    [targetJid |-> requests[r].targetJid, isTracking |-> TRUE])
            /\ trackers' = [jid \in DOMAIN trackers \cup {requests[r].targetJid} |->
                              IF jid = requests[r].targetJid
                              THEN Len(instances) + 1 ELSE trackers[jid]]
            /\ requests' = [requests EXCEPT ![r].pc = "added"]
       ELSE /\ UNCHANGED <<instances, trackers>>
            /\ requests' = [requests EXCEPT ![r].pc = "error"]
    /\ lastEvent' = Event("onWhatsApp", r, requests[r].targetJid, <<outcome>>,
                          0, 0, NoResult)
    /\ UNCHANGED <<rttAnalyzer, trackerVars, now, link, historyVars, config,
                   sock, connecting>>

\* socket.on('remove-contact')
RemoveContact(jid) ==
    /\ IF jid \in DOMAIN trackers
       THEN /\ instances' = stopInstances({trackers[jid]})
            /\ trackers' = deleteKey(trackers, jid)
       ELSE UNCHANGED <<instances, trackers>>
    /\ lastEvent' = Event("removeContact", 0, jid, <<>>, 0, 0,
                          <<jid \in DOMAIN trackers>>)
    /\ UNCHANGED <<rttAnalyzer, trackerVars, now, link, historyVars, config,
                   sock, connecting, requests>>

NextServer ==
    \/ ConnectDone(MaxSockets)
    \/ \E shouldReconnect \in BOOLEAN : ConnectionClose(shouldReconnect)
    \/ \E valid \in BOOLEAN, targetJid \in ContactJids :
          AddContact(valid, targetJid, MaxRequests)
    \/ \E r \in 1..MaxRequests, outcome \in {"exists", "absent", "threw"} :
          OnWhatsAppDone(r, outcome)
    \/ \E jid \in ContactJids : RemoveContact(jid)

SpecServer == Init /\ [][NextServer]_vars

-----------------------------------------------------------------------------
(* SpecLong: the pipeline behind processAck for more ACKs than a device's  *)
(* rttHistory holds, the history limit being the default or a small one    *)

NextLong ==
    \/ /\ Len(observed.given) < MaxLongSamples
       /\ AckDelivered(MaxLongSamples)
    \/ \E rtt \in Rtts : LatencyChange(rtt, MaxLongChanges)

SpecLong == InitHistory /\ [][NextLong]_vars

(* Properties of Spec: the probe table, the timers and stopTracking *)

AckOps == {"messagesUpdate", "rawReceipt"}

\* The published state of jid is Offline
publishedOffline(jid) ==
    jid \in DOMAIN deviceMetrics /\ deviceMetrics[jid].activityState = "Offline"

\* C1: for either probe method, every expiry of a pending probe's timer is
\* handled by the timeout path: the tracker keeps running, the device's
\* consecutiveTimeouts equals the timers expired for it since its last ACK,
\* and its published state is Offline exactly when that number has reached 3.
C1_TimeoutPathCountsToThree ==
    /\ ~crashed
    /\ \A jid \in Jids :
          timeoutsSinceAck[jid] > 0 =>
             /\ jid \in DOMAIN deviceMetrics
             /\ deviceMetrics[jid].consecutiveTimeouts = timeoutsSinceAck[jid]
             /\ publishedOffline(jid) <=> timeoutsSinceAck[jid] >= 3

\* C5: of a probe's ACK and its timer expiry at most one takes effect: no
\* probe has more than one RTT measurement forwarded, a probe whose timer
\* callback removed the record has none, and a probe with a measurement
\* forwarded has no record, no timer handle and no armed timer left.
C5_AckOrExpiryNotBoth ==
    \A id \in DOMAIN forwarded :
       /\ forwarded[id] <= 1
       /\ id \in expired => forwarded[id] = 0
       /\ forwarded[id] = 1 =>
            /\ id \notin expired
            /\ id \notin DOMAIN probeStartTimes
            /\ id \notin DOMAIN probeTimeouts
            /\ \A h \in timers : h.id # id

\* A late ACK: the timer callback removed the record, then an ACK for the
\* probe reached processAck
C5_LateAckAfterExpiry ==
    /\ lastEvent.op \in AckOps
    /\ lastEvent.ret = <<"unknown">>
    /\ lastEvent.id \in expired

\* C6: an ACK for a probe id that is not pending changes nothing of the
\* tracker or the analyzer and emits no update.
C6_UnknownAckIsNoOp ==
    [][(lastEvent'.op \in AckOps /\ ~isPending(probeStartTimes, lastEvent'.id))
          => /\ UNCHANGED <<rttAnalyzer, trackerVars>>
             /\ lastEvent'.emitted = 0]_vars

\* A duplicate: processAck found no record for a probe already acknowledged
C6_DuplicateAckDelivered ==
    /\ lastEvent.op \in AckOps
    /\ lastEvent.ret = <<"unknown">>
    /\ lastEvent.id \in DOMAIN forwarded
    /\ forwarded[lastEvent.id] = 1

\* C7: once stopTracking has returned, no timer callback and no
\* acknowledgement changes deviceMetrics or the analyzer or emits an update.
C7_NothingHappensAfterStop ==
    [][(/\ ~isTracking
        /\ lastEvent'.op \in AckOps \cup {"timeout"})
          => /\ deviceMetrics' = deviceMetrics
             /\ rttAnalyzer' = rttAnalyzer
             /\ lastEvent'.emitted = 0]_vars

\* C13: when a probe's timer fires while the probe is pending, for either
\* probe method, the probe's record and timer entry are removed, the owning
\* endpoint's consecutiveTimeouts grows by 1 (an unseen endpoint is created
\* with 1), and one update is emitted with the elapsed wait as lastRtt.
C13_TimerExpiryCountsOneTimeout ==
    [][(/\ lastEvent'.op = "timeout"
        /\ lastEvent'.id \in DOMAIN probeStartTimes) =>
          LET id == lastEvent'.id
              jid == lastEvent'.jid
          IN  /\ id \notin DOMAIN probeStartTimes'
              /\ id \notin DOMAIN probeTimeouts'
              /\ jid \in DOMAIN deviceMetrics'
              /\ deviceMetrics'[jid].consecutiveTimeouts =
                    IF jid \in DOMAIN deviceMetrics
                    THEN deviceMetrics[jid].consecutiveTimeouts + 1 ELSE 1
              /\ deviceMetrics'[jid].lastRtt = lastEvent'.rtt
              /\ lastEvent'.emitted = 1
      ]_vars

\* C8: with no probe timed out and fewer than 5 samples in the sliding
\* window, every device's published state is Calibrating / Unknown.
C8_CalibratingWhileWindowShort ==
    (expired = {} /\ Len(rttAnalyzer.slidingWindow) < 5) =>
        \A jid \in DOMAIN deviceMetrics :
           /\ deviceMetrics[jid].activityState = "Calibrating"
           /\ deviceMetrics[jid].networkType = "Unknown"

-----------------------------------------------------------------------------
(* Properties of SpecAnalyzer: confirmation and transition counting *)

\* The analysis the last acknowledged probe of the target produced
lastAnalysisOf(dm) == dm[Target].lastAnalysis[1]

\* The step is an acknowledged probe whose window was evaluated (classified)
WindowEvaluated ==
    /\ lastEvent'.op = "ack"
    /\ lastAnalysisOf(deviceMetrics').rawActivityState # "Calibrating"

activityAxis(a) ==
    <<a.confirmedActivity, a.pendingActivity, a.activityPendingStartTime,
      a.activityWindowCount>>

networkAxis(a) ==
    <<a.confirmedNetwork, a.pendingNetwork, a.networkPendingStartTime,
      a.networkWindowCount>>

\* C2: a confirmed Online/Standby (Wi-Fi/LTE) changes only at an evaluation
\* whose raw value is the new value, that value having been the pending
\* candidate for 3 evaluations, this one included, and for 5 seconds.
C2_ConfirmedChangesOnlyAfterThreeWindowsAndFiveSeconds ==
    [][lastEvent'.op = "ack" =>
        /\ (/\ rttAnalyzer.confirmedActivity \in {"Online", "Standby"}
            /\ rttAnalyzer'.confirmedActivity # rttAnalyzer.confirmedActivity)
             => /\ WindowEvaluated
                /\ rttAnalyzer'.confirmedActivity =
                      lastAnalysisOf(deviceMetrics').rawActivityState
                /\ rttAnalyzer.pendingActivity = rttAnalyzer'.confirmedActivity
                /\ rttAnalyzer.activityWindowCount + 1 >= 3
                /\ now - rttAnalyzer.activityPendingStartTime >= 5 * 1000
        /\ (/\ rttAnalyzer.confirmedNetwork \in {"Wi-Fi", "LTE"}
            /\ rttAnalyzer'.confirmedNetwork # rttAnalyzer.confirmedNetwork)
             => /\ WindowEvaluated
                /\ rttAnalyzer'.confirmedNetwork =
                      lastAnalysisOf(deviceMetrics').rawNetworkType
                /\ rttAnalyzer.pendingNetwork = rttAnalyzer'.confirmedNetwork
                /\ rttAnalyzer.networkWindowCount + 1 >= 3
                /\ now - rttAnalyzer.networkPendingStartTime >= 5 * 1000
      ]_vars

\* Standby is confirmed although the first window was classified Online
\* against the fixed threshold: the confirmed value has changed
C2_StandbyConfirmedAfterOnline ==
    /\ lastEvent.op = "ack"
    /\ rttAnalyzer.observedTransitions = 0
    /\ Len(rttAnalyzer.medianHistory) > 0
    /\ rttAnalyzer.medianHistory[1] < Fx(800)
    /\ rttAnalyzer.confirmedActivity = "Standby"

withActivityAxis(a, x) ==
    [a EXCEPT !.confirmedActivity = x[1], !.pendingActivity = x[2],
              !.activityPendingStartTime = x[3], !.activityWindowCount = x[4]]

withNetworkAxis(a, x) ==
    [a EXCEPT !.confirmedNetwork = x[1], !.pendingNetwork = x[2],
              !.networkPendingStartTime = x[3], !.networkWindowCount = x[4]]

\* C4: at every evaluation the network machine's state afterwards is the one
\* the confirmation step gives from the same network state, raw network
\* value and clock whatever the activity machine's state and the raw
\* activity value are, and the same with the axes exchanged.
C4_ConfirmationMachinesIndependent ==
    [][WindowEvaluated =>
        LET res == lastAnalysisOf(deviceMetrics')
            a == withNetworkAxis(
                    withActivityAxis(rttAnalyzer', activityAxis(rttAnalyzer)),
                    networkAxis(rttAnalyzer))
        IN  /\ \A c \in {"Calibrating", "Online", "Standby"},
                  p \in {Null, "Online", "Standby"},
                  t \in {now, a.activityPendingStartTime},
                  n \in {0, 2, a.activityWindowCount},
                  raw \in {"Online", "Standby"} :
                  networkAxis(confirmed(withActivityAxis(a, <<c, p, t, n>>),
                                        raw, res.rawNetworkType, now))
                     = networkAxis(rttAnalyzer')
            /\ \A c \in {"Unknown", "Wi-Fi", "LTE"},
                  p \in {Null, "Wi-Fi", "LTE"},
                  t \in {now, a.networkPendingStartTime},
                  n \in {0, 2, a.networkWindowCount},
                  raw \in {"Wi-Fi", "LTE"} :
                  activityAxis(confirmed(withNetworkAxis(a, <<c, p, t, n>>),
                                         res.rawActivityState, raw, now))
                     = activityAxis(rttAnalyzer')
      ]_vars

\* The network candidate has been counted twice or more while the activity
\* candidate has just been replaced
C4_NetworkCountingAcrossActivityFlip ==
    /\ lastEvent.op = "ack"
    /\ rttAnalyzer.pendingNetwork # Null
    /\ rttAnalyzer.networkWindowCount >= 2
    /\ rttAnalyzer.pendingActivity # Null
    /\ rttAnalyzer.activityWindowCount = 1

\* The median m is at least 25% away from the baseline
departs(m, baseline) == Abs(m - baseline) * 100 >= 25 * baseline

-----------------------------------------------------------------------------
(* Properties of SpecOffline *)

\* C10: the acknowledged probe that follows a published Offline publishes
\* Calibrating / Unknown, not a confirmed Online or Standby, also when the
\* analyzer had confirmed Online or Standby before the device went Offline.
C10_AckAfterOfflinePublishesCalibrating ==
    [][(/\ lastEvent'.op = "ack"
        /\ publishedOffline(Target)
        /\ rttAnalyzer.confirmedActivity \in {"Online", "Standby"}) =>
          /\ deviceMetrics'[Target].activityState = "Calibrating"
          /\ deviceMetrics'[Target].networkType = "Unknown"]_vars

\* C12: an acknowledged probe leaves the endpoint's consecutiveTimeouts at 0
\* whatever its RTT; the counter is the number of timeouts since the
\* endpoint's last ACK, and the endpoint is published Offline exactly when
\* three timeouts have followed one another since then.
C12_AckResetsConsecutiveTimeouts ==
    /\ lastEvent.op = "ack" => deviceMetrics[Target].consecutiveTimeouts = 0
    /\ Target \in DOMAIN deviceMetrics =>
          deviceMetrics[Target].consecutiveTimeouts = timeoutsSinceAck[Target]
    /\ publishedOffline(Target) <=> timeoutsSinceAck[Target] >= 3

\* Offline is published after an ACK that found 2 timeouts counted and whose
\* RTT was 0 or above offlineThreshold (no valid sample was ever given)
C12_OfflineAfterResetByOddRtt ==
    /\ publishedOffline(Target)
    /\ observed.found = 2
    /\ observed.given = <<>>
    /\ timeoutsSinceAck[Target] = 3

-----------------------------------------------------------------------------
(* Properties of SpecEngine *)

\* The step is a call determineState(currentState, true)
TimeoutDelivered ==
    /\ lastEvent'.op = "determineState"
    /\ lastEvent'.arg[2]

\* C11: a timeout given to determineState sets, in that call and whatever the
\* analyzer's state was, confirmed activity to Offline and confirmed network
\* to Unknown, clears the candidate and the window count of both axes, and
\* returns Offline / Unknown with both pending flags false and both progress
\* values 0.
C11_TimeoutCollapsesBothAxes ==
    [][TimeoutDelivered =>
        LET b == rttAnalyzer'
            res == lastEvent'.ret[1]
        IN  /\ activityAxis(b) =
                  <<"Offline", Null, rttAnalyzer.activityPendingStartTime, 0>>
            /\ networkAxis(b) =
                  <<"Unknown", Null, rttAnalyzer.networkPendingStartTime, 0>>
            /\ res.activityState = "Offline"
            /\ res.networkType = "Unknown"
            /\ ~res.activityPending /\ ~res.networkPending
            /\ res.activityProgress = 0 /\ res.networkProgress = 0
      ]_vars

\* A timeout has been delivered to an analyzer that had classified a window
\* and had started a candidate on the activity axis
C11_TimeoutAfterCandidate ==
    /\ lastEvent.op = "determineState"
    /\ lastEvent.arg[2]
    /\ Len(rttAnalyzer.medianHistory) >= 2
    /\ rttAnalyzer.activityPendingStartTime > 0
    /\ rttAnalyzer.confirmedActivity = "Offline"

\* C14: addMeasurement called with an RTT outside (0, 60000] returns false
\* and leaves the analyzer as it was: nothing is appended to the sliding
\* window and the burn-in counter does not move.
C14_InvalidRttIsDropped ==
    [][(/\ lastEvent'.op = "addMeasurement"
        /\ ~(lastEvent'.rtt > 0 /\ lastEvent'.rtt <= 60000)) =>
          /\ lastEvent'.ret = <<FALSE>>
          /\ rttAnalyzer'.slidingWindow = rttAnalyzer.slidingWindow
          /\ rttAnalyzer'.discardedSampleCount = rttAnalyzer.discardedSampleCount
          /\ rttAnalyzer' = rttAnalyzer
      ]_vars

\* An RTT above 60000 has been given while the burn-in was under way
C14_InvalidRttDuringBurnIn ==
    /\ lastEvent.op = "addMeasurement"
    /\ lastEvent.rtt > 60000
    /\ rttAnalyzer.discardedSampleCount = 2

-----------------------------------------------------------------------------
(* Properties of SpecWindow *)

Max(x, y) == IF x >= y THEN x ELSE y

\* C15: of the n valid samples given since construction or reset the first 5
\* are discarded (false is returned) and the later ones accepted (true is
\* returned); the sliding window is the most recent min(n - 5, 20) accepted
\* samples in arrival order, so it never holds more than 20.
C15_WindowIsMostRecentAccepted ==
    LET given == observed.given
        n == Len(given)
    IN  /\ rttAnalyzer.discardedSampleCount = Min(n, 5)
        /\ rttAnalyzer.slidingWindow = SubSeq(given, Max(6, n - 19), n)
        /\ Len(rttAnalyzer.slidingWindow) <= 20
        /\ (/\ lastEvent.op = "addMeasurement"
            /\ lastEvent.rtt > 0 /\ lastEvent.rtt <= 60000) =>
              lastEvent.ret = <<n > 5>>

\* The window has overflowed and the sample evicted differs from the one
\* that is now the oldest
C15_OldestEvicted ==
    /\ lastEvent.op = "addMeasurement"
    /\ lastEvent.ret = <<TRUE>>
    /\ Len(observed.given) >= 26
    /\ observed.given[Len(observed.given) - 20] # rttAnalyzer.slidingWindow[1]

-----------------------------------------------------------------------------
(* Properties of SpecConfidence *)

\* The confidence of n observed transitions, as the documentation tabulates it
levelOf(n) ==
    IF n \in {0, 1} THEN "Low" ELSE IF n \in {2, 3} THEN "Medium" ELSE "High"

\* C16: getConfidenceLevel depends on the transition counter alone: Low for
\* 0 or 1 observed transitions, Medium for 2 or 3, High for 4 or more, in
\* every reachable state of the analyzer and in every result it returns.
C16_ConfidenceFollowsTransitionCount ==
    /\ rttAnalyzer.observedTransitions \in Nat
    /\ getConfidenceLevel(rttAnalyzer) = levelOf(rttAnalyzer.observedTransitions)
    /\ \A jid \in DOMAIN deviceMetrics :
          \A i \in DOMAIN deviceMetrics[jid].lastAnalysis :
             LET r == deviceMetrics[jid].lastAnalysis[i]
             IN  r.confidenceLevel = levelOf(r.observedTransitions)

\* The fourth transition has been counted and High published
C16_HighAfterFourTransitions ==
    /\ rttAnalyzer.observedTransitions = 4
    /\ Target \in DOMAIN deviceMetrics
    /\ deviceMetrics[Target].lastAnalysis # NoResult
    /\ lastAnalysisOf(deviceMetrics).confidenceLevel = "High"
    /\ lastAnalysisOf(deviceMetrics).observedTransitions = 4

\* An acknowledgement has just been processed and its window classified
AckClassified ==
    /\ lastEvent.op = "ack"
    /\ Target \in DOMAIN deviceMetrics
    /\ deviceMetrics[Target].lastAnalysis # NoResult
    /\ lastAnalysisOf(deviceMetrics).rawActivityState \in {"Online", "Standby"}

-----------------------------------------------------------------------------
(* Properties of SpecHistory *)

\* The step is an acknowledgement whose window is classified
AckClassifies == AckClassified'

\* C18: the cached magnitude and jitter thresholds change only during a
\* window evaluation, and then only if at least 5 entries have been added to
\* medianHistory since the last recomputation (this evaluation's included) or
\* the cached magnitude threshold is 0; otherwise both stay as they are.
C18_ThresholdsChangeOnlyWhenDue ==
    [][(\/ rttAnalyzer'.cachedMagnitudeThreshold # rttAnalyzer.cachedMagnitudeThreshold
        \/ rttAnalyzer'.cachedJitterThreshold # rttAnalyzer.cachedJitterThreshold)
       => /\ AckClassifies
          /\ \/ observed'.counted >= 5
             \/ rttAnalyzer.cachedMagnitudeThreshold = 0]_vars

\* Between two recomputations: medians were added, the 75th percentile of a
\* history has moved, and the cached thresholds are the earlier ones
C18_StaleThresholdsKept ==
    /\ lastEvent.op = "ack"
    /\ observed.appended \in 1..4
    /\ observed.counted = observed.appended
    /\ rttAnalyzer.cachedMagnitudeThreshold > 0
    /\ config.globalHistoryLimit = globalHistoryLimit
    /\ \/ rttAnalyzer.cachedMagnitudeThreshold
             # getPercentile(rttAnalyzer.medianHistory, 75)
       \/ rttAnalyzer.cachedJitterThreshold
             # getPercentile(rttAnalyzer.jitterHistory, 75)
\* C19: at every window evaluation where the thresholds have never been
\* computed, or at least 5 non-rejected medians have been appended to
\* medianHistory since the last recomputation, both cached thresholds are
\* recomputed as the 75th percentile of medianHistory and of jitterHistory,
\* also once medianHistory has reached its size limit (medianHistory holding
\* the minSamplesForJitter entries a percentile is taken from).
C19_DueRecomputationHappens ==
    [][(/\ AckClassifies
        /\ Len(rttAnalyzer'.medianHistory) >= minSamplesForJitter
        /\ \/ rttAnalyzer.cachedMagnitudeThreshold = 0
           \/ observed'.counted >= 5)
       => /\ rttAnalyzer'.cachedMagnitudeThreshold
                = getPercentile(rttAnalyzer'.medianHistory, 75)
          /\ rttAnalyzer'.cachedJitterThreshold
                = getPercentile(rttAnalyzer'.jitterHistory, 75)]_vars

\* h with x appended, the oldest entry leaving once the size limit is passed
appendedTo(h, x) ==
    IF Len(h) + 1 > config.globalHistoryLimit THEN Tail(Append(h, x))
    ELSE Append(h, x)

\* C20: a window evaluation appends the window's median to medianHistory
\* unless medianHistory holds at least 10 entries and the median is above
\* their Q3 + 3*IQR (with fewer than 10 entries every median is appended); it
\* appends the window's jitter to jitterHistory in every case; and a rejected
\* median leaves the sliding window as addMeasurement made it.
C20_MedianAppendedUnlessExtreme ==
    [][AckClassifies =>
        LET a == rttAnalyzer
            window == addMeasurement(a, lastEvent'.rtt).a.slidingWindow
            median == calculateMedian(FxSeq(window))
            jitter == calculateIQR(FxSeq(window))
            q1 == getPercentile(a.medianHistory, 25)
            q3 == getPercentile(a.medianHistory, 75)
            rejected == /\ Len(a.medianHistory) >= 10
                        /\ median > q3 + 3 * (q3 - q1)
        IN  /\ rttAnalyzer'.medianHistory =
                  IF rejected THEN a.medianHistory
                  ELSE appendedTo(a.medianHistory, median)
            /\ rttAnalyzer'.jitterHistory = appendedTo(a.jitterHistory, jitter)
            /\ rttAnalyzer'.slidingWindow = window]_vars

\* A median has been rejected: with the default size limit the history of
\* medians is shorter than that of jitters, and the window holds the sample
C20_MedianRejected ==
    /\ AckClassified
    /\ config.globalHistoryLimit = globalHistoryLimit
    /\ Len(rttAnalyzer.medianHistory) >= 10
    /\ Len(rttAnalyzer.jitterHistory) > Len(rttAnalyzer.medianHistory)
    /\ rttAnalyzer.slidingWindow[Len(rttAnalyzer.slidingWindow)] = lastEvent.rtt
    /\ lastAnalysisOf(deviceMetrics).windowMedian
          > rttAnalyzer.medianHistory[Len(rttAnalyzer.medianHistory)]

-----------------------------------------------------------------------------
(* Properties of SpecStats *)

\* The k-th smallest sample of the window w, by rank
orderStatistic(w, k) ==
    CHOOSE v \in {w[i] : i \in DOMAIN w} :
        /\ Cardinality({i \in DOMAIN w : w[i] < v}) < k
        /\ k <= Cardinality({i \in DOMAIN w : w[i] <= v})

\* Twice the reference median of w, in ms
twiceMedianOf(w) ==
    LET n == Len(w)
    IN  IF n % 2 = 1 THEN 2 * orderStatistic(w, (n + 1) \div 2)
        ELSE orderStatistic(w, n \div 2) + orderStatistic(w, n \div 2 + 1)

\* A hundred times the reference p-th percentile of w, in ms: the linear
\* interpolation of the sorted window at the fractional index p/100 * (n - 1)
hundredPercentilesOf(w, p) ==
    LET num == p * (Len(w) - 1)
        below == num \div 100
        weight == num % 100
    IN  IF weight = 0 THEN 100 * orderStatistic(w, below + 1)
        ELSE (100 - weight) * orderStatistic(w, below + 1)
                + weight * orderStatistic(w, below + 2)

\* C21: the window median is the reference order-statistic median (the
\* middle element, or the mean of the two middle ones) and the jitter is
\* P75 - P25, the p-th percentile being the linear interpolation of the sorted
\* window at index p/100 * (n - 1); determineState returns these for every
\* window of 5 or more samples; [100,200,300,400] has median 250 and
\* [100,200,300] has median 200.
C21_WindowStatsMatchReference ==
    LET w == rttAnalyzer.slidingWindow
        median == calculateMedian(FxSeq(w))
        jitter == calculateIQR(FxSeq(w))
    IN  /\ w # <<>> => 2 * median = Fx(twiceMedianOf(w))
        /\ Len(w) >= 4 =>
              100 * jitter = Fx(hundredPercentilesOf(w, 75)
                                  - hundredPercentilesOf(w, 25))
        /\ w = <<100, 200, 300, 400>> => median = Fx(250)
        /\ w = <<100, 200, 300>> => median = Fx(200)
        /\ (lastEvent.op = "determineState" /\ Len(w) >= 5) =>
              /\ lastEvent.ret[1].windowMedian = median
              /\ lastEvent.ret[1].windowJitter = jitter

\* determineState has evaluated a window of even length whose quartiles
\* fall between samples
C21_EvenWindowInterpolated ==
    /\ lastEvent.op = "determineState"
    /\ Len(rttAnalyzer.slidingWindow) = 6
    /\ 2 * lastEvent.ret[1].windowMedian = Fx(500)
    /\ 4 * lastEvent.ret[1].windowJitter = Fx(700)

-----------------------------------------------------------------------------
(* Properties of SpecTransitions *)

\* C22: no step (sample, timeout, classification) decreases the transition
\* counter, except the reset() of the whole analyzer that stopTracking makes;
\* an acknowledgement that follows a published Offline keeps it.
C22_TransitionCounterNeverDecreases ==
    [][\/ rttAnalyzer'.observedTransitions >= rttAnalyzer.observedTransitions
       \/ /\ lastEvent'.op = "stopTracking"
          /\ rttAnalyzer' = newRttAnalyzer]_vars

\* An acknowledgement after three timeouts (Offline published) leaves the
\* counter at 2: at least one transition had been counted before
C22_CounterKeptAcrossOffline ==
    /\ lastEvent.op = "ack"
    /\ observed.found = 3
    /\ rttAnalyzer.observedTransitions = 2

-----------------------------------------------------------------------------
(* Properties of SpecDevices *)

\* C23: a sample acknowledged by one device identifier changes neither the
\* metrics of another identifier nor what the classifications reported for
\* the other identifier are made from: the sliding window, the cached
\* thresholds and the transition counter of the analyzer that
\* determineDeviceState uses for it.
C23_SampleOfOneDeviceLeavesOthers ==
    [][\A jid \in AckingJids : \A other \in DOMAIN deviceMetrics \ {jid} :
          (lastEvent'.op = "ack" /\ lastEvent'.jid = jid) =>
              /\ deviceMetrics'[other] = deviceMetrics[other]
              /\ rttAnalyzer'.slidingWindow = rttAnalyzer.slidingWindow
              /\ rttAnalyzer'.cachedMagnitudeThreshold
                    = rttAnalyzer.cachedMagnitudeThreshold
              /\ rttAnalyzer'.cachedJitterThreshold
                    = rttAnalyzer.cachedJitterThreshold
              /\ rttAnalyzer'.observedTransitions
                    = rttAnalyzer.observedTransitions]_vars

-----------------------------------------------------------------------------
(* Properties of Spec: what completes a probe, and what a stop leaves *)

\* The step handles an update or a receipt that is not a device-received
\* acknowledgement from a tracked identifier
NotDeviceAck ==
    \/ /\ lastEvent'.op = "messagesUpdate"
       /\ \/ lastEvent'.arg[2] # CLIENT_ACK
          \/ lastEvent'.jid \notin trackedJids
    \/ /\ lastEvent'.op = "rawReceipt"
       /\ \/ lastEvent'.arg[1] # "inactive"
          \/ /\ lastEvent'.jid \notin trackedJids
             /\ baseJid(lastEvent'.jid) \notin trackedJids

\* C24: a status update of another kind than the device's acknowledgement
\* (a server ACK, status 2), or one whose remote id is not tracked, cancels no
\* timer, removes no probe record and gives no RTT sample, pending probe or
\* not: the probe's timer stays armed.
C24_OnlyDeviceAckCompletesProbe ==
    [][NotDeviceAck =>
          /\ UNCHANGED <<timers, probeTimeouts, probeStartTimes,
                         deviceMetrics, rttAnalyzer>>
          /\ lastEvent'.emitted = 0
          /\ lastEvent'.ret = <<"ignored">>]_vars

\* A server ACK has arrived for a pending probe, whose timer is still armed
C24_ServerAckForPendingProbe ==
    /\ lastEvent.op = "messagesUpdate"
    /\ lastEvent.arg = <<TRUE, SERVER_ACK>>
    /\ isPending(probeStartTimes, lastEvent.id)
    /\ lastEvent.id \in DOMAIN probeTimeouts
    /\ probeTimeouts[lastEvent.id] \in timers

\* C25: stopTracking discards the endpoint's state as a unit: afterwards the
\* pending-probe table and the timer table are empty and no probe timer is
\* armed, the analyzer equals a newly constructed one, and no per-device
\* metrics are left for the updates that follow a restart to show.
C25_StopDiscardsEndpointState ==
    [][lastEvent'.op = "stopTracking" =>
          /\ probeStartTimes' = EmptyMap
          /\ probeTimeouts' = EmptyMap
          /\ timers' = {}
          /\ rttAnalyzer' = newRttAnalyzer
          /\ deviceMetrics' = EmptyMap]_vars

-----------------------------------------------------------------------------
(* Properties of SpecProgress *)

\* 150 times the percentage min(min(count / 3, 1), min(elapsed / 5 s, 1)) * 100
confirmationPercentTimes150(count, elapsedMs) ==
    LET byWindows == IF count >= 3 THEN 15000 ELSE 5000 * count
        byTime == IF elapsedMs >= 5000 THEN 15000 ELSE 3 * elapsedMs
    IN  IF byWindows <= byTime THEN byWindows ELSE byTime

\* C26: in every result an acknowledgement publishes, each axis's pending
\* flag is true exactly when the analyzer holds a pending candidate of that
\* axis after the step, and its progress is in [0, 100], 0 without a
\* candidate and otherwise min(min(windowCount / 3, 1), min(elapsed / 5 s, 1))
\* * 100 of the candidate.
C26_ProgressIsMinOfWindowsAndTime ==
    (/\ lastEvent.op = "ack"
     /\ Target \in DOMAIN deviceMetrics
     /\ deviceMetrics[Target].lastAnalysis # NoResult) =>
        LET r == lastAnalysisOf(deviceMetrics)
            a == rttAnalyzer
        IN  /\ r.activityPending = (a.pendingActivity # Null)
            /\ r.networkPending = (a.pendingNetwork # Null)
            /\ r.activityProgress \in 0..(100 * 150)
            /\ r.networkProgress \in 0..(100 * 150)
            /\ r.activityProgress =
                  IF a.pendingActivity = Null THEN 0
                  ELSE confirmationPercentTimes150(a.activityWindowCount,
                           now - a.activityPendingStartTime)
            /\ r.networkProgress =
                  IF a.pendingNetwork = Null THEN 0
                  ELSE confirmationPercentTimes150(a.networkWindowCount,
                           now - a.networkPendingStartTime)

\* An activity candidate seen in three windows, 4 s old: 80 % by time
C26_CandidateLimitedByTime ==
    /\ lastEvent.op = "ack"
    /\ rttAnalyzer.pendingActivity # Null
    /\ rttAnalyzer.activityWindowCount >= 3
    /\ lastAnalysisOf(deviceMetrics).activityPending
    /\ lastAnalysisOf(deviceMetrics).activityProgress = 80 * 150

\* C27: a probe whose send fails (it throws or returns no message id)
\* registers no pending record and arms no timer, changes no device metric
\* and nothing of the analyzer, is not sent again, and leaves the probe loop
\* waiting for the inter-probe delay; a loop that wakes while tracking is
\* active sends the next probe.
C27_FailedSendChangesNothing ==
    [][/\ (lastEvent'.op = "sendDone" /\ lastEvent'.ret = <<FALSE>>) =>
            /\ UNCHANGED <<probeStartTimes, probeTimeouts, timers,
                           deviceMetrics, rttAnalyzer, nextMsgId>>
            /\ lastEvent'.id \notin DOMAIN probeStartTimes'
            /\ \A k \in DOMAIN loops :
                  (loops[k].pc = "sending" /\ loops[k].msgId = lastEvent'.id) =>
                      /\ loops'[k].pc = "sleeping"
                      /\ loops'[k].wakeAt >= now + probeIntervalDefault
       /\ (lastEvent'.op = "loopWake" /\ isTracking) =>
            /\ loops'[lastEvent'.id].pc = "sending"
            /\ loops'[lastEvent'.id].msgId = nextMsgId'
            /\ nextMsgId' = nextMsgId + 1]_vars

\* The first send failed and the loop, having waited, is sending the second
C27_NextProbeAfterFailedSend ==
    /\ isTracking
    /\ lastEvent.op = "loopWake"
    /\ loops[lastEvent.id].pc = "sending"
    /\ loops[lastEvent.id].msgId = 2
    /\ 1 \notin DOMAIN forwarded
    /\ probeStartTimes = EmptyMap /\ timers = {}

\* C28: between handlers the probe ids with a recorded send time are the
\* probe ids with a timer entry, each entry is the armed timer of its own
\* probe, and no other timer is armed.
C28_RecordsAndTimersPaired ==
    /\ DOMAIN probeStartTimes = DOMAIN probeTimeouts
    /\ \A id \in DOMAIN probeTimeouts :
          /\ probeTimeouts[id].id = id
          /\ probeTimeouts[id] \in timers
    /\ timers = {probeTimeouts[id] : id \in DOMAIN probeTimeouts}
    /\ Cardinality(timers) = Cardinality(DOMAIN probeStartTimes)

\* Two probes were outstanding; the first has been acknowledged, the second
\* is left with its timer
C28_OneOfTwoAcknowledged ==
    /\ lastEvent.op \in AckOps
    /\ lastEvent.ret = <<"acked">>
    /\ lastEvent.id = 1
    /\ DOMAIN probeStartTimes = {2}
    /\ Cardinality(timers) = 1

\* C29: whenever the activity state published for a device after an
\* acknowledgement is Online or Standby, it is the analyzer's confirmed
\* activity at that moment, whatever round-trip time the acknowledgement
\* carries.
C29_PublishedActivityIsConfirmed ==
    (/\ lastEvent.op \in AckOps \cup {"ack"}
     /\ lastEvent.ret = <<"acked">>
     /\ deviceMetrics[lastEvent.jid].activityState \in {"Online", "Standby"}) =>
        deviceMetrics[lastEvent.jid].activityState = rttAnalyzer.confirmedActivity

\* C30: an evaluation whose raw value of an axis is that axis's confirmed
\* value clears the axis's candidate and sets its window count to 0, the
\* confirmed value staying; a raw value that is neither the confirmed value
\* nor the candidate becomes the candidate with count 1 and the current time
\* as its start, so an interrupted candidate starts again from there.
C30_ConfirmedObservationClearsCandidate ==
    [][WindowEvaluated =>
        LET r == lastAnalysisOf(deviceMetrics')
            a == rttAnalyzer
            b == rttAnalyzer'
        IN  /\ r.rawActivityState = a.confirmedActivity =>
                  /\ b.pendingActivity = Null
                  /\ b.activityWindowCount = 0
                  /\ b.confirmedActivity = a.confirmedActivity
            /\ r.rawNetworkType = a.confirmedNetwork =>
                  /\ b.pendingNetwork = Null
                  /\ b.networkWindowCount = 0
                  /\ b.confirmedNetwork = a.confirmedNetwork
            /\ r.rawActivityState \notin {a.confirmedActivity, a.pendingActivity} =>
                  /\ b.pendingActivity = r.rawActivityState
                  /\ b.activityWindowCount = 1
                  /\ b.activityPendingStartTime = now
            /\ r.rawNetworkType \notin {a.confirmedNetwork, a.pendingNetwork} =>
                  /\ b.pendingNetwork = r.rawNetworkType
                  /\ b.networkWindowCount = 1
                  /\ b.networkPendingStartTime = now]_vars

\* The medians went 800, 720, 800 ms under a confirmed Online: the Standby
\* candidate was cleared by the second and has started again at count 1
C30_CandidateRestarted ==
    /\ lastEvent.op = "ack"
    /\ Len(rttAnalyzer.medianHistory) >= 4
    /\ SubSeq(rttAnalyzer.medianHistory, Len(rttAnalyzer.medianHistory) - 2,
              Len(rttAnalyzer.medianHistory)) = <<Fx(800), Fx(720), Fx(800)>>
    /\ rttAnalyzer.confirmedActivity = "Online"
    /\ rttAnalyzer.pendingActivity = "Standby"
    /\ rttAnalyzer.activityWindowCount = 1
    /\ rttAnalyzer.activityPendingStartTime = now
    /\ now > TickMs

\* C31: an evaluation whose raw value of an axis is neither the axis's
\* confirmed value nor its candidate makes that value the candidate with window
\* count 1 and the current time as start, and leaves the confirmed value of
\* the axis as it was.
C31_NewCandidateLeavesConfirmed ==
    [][WindowEvaluated =>
        LET r == lastAnalysisOf(deviceMetrics')
            a == rttAnalyzer
            b == rttAnalyzer'
        IN  /\ r.rawActivityState \notin {a.confirmedActivity, a.pendingActivity} =>
                  /\ activityAxis(b) =
                         <<a.confirmedActivity, r.rawActivityState, now', 1>>
            /\ r.rawNetworkType \notin {a.confirmedNetwork, a.pendingNetwork} =>
                  /\ networkAxis(b) =
                         <<a.confirmedNetwork, r.rawNetworkType, now', 1>>]_vars

\* The fields of the analyzer that only a sample entering the window may
\* change: window, histories, cached thresholds, transition state and the
\* window counts of both candidates
windowDriven(a) ==
    <<a.slidingWindow, a.medianHistory, a.jitterHistory,
      a.cachedMagnitudeThreshold, a.cachedJitterThreshold,
      a.observedTransitions, a.lastStableMedian, a.transitionInProgress,
      a.activityWindowCount, a.networkWindowCount>>

\* C32: an acknowledged probe whose round-trip time does not enter the
\* sliding window (outside (0, 60000], above offlineThreshold, or one of the
\* first 5 samples) leaves the window, both histories, the cached thresholds,
\* the transition state and both candidates' window counts as they were.
C32_UnaddedSampleLeavesAnalyzer ==
    [][(/\ lastEvent'.op = "ack"
        /\ \/ lastEvent'.rtt <= 0
           \/ lastEvent'.rtt > maxValidRtt
           \/ lastEvent'.rtt > offlineThreshold
           \/ rttAnalyzer.discardedSampleCount < discardInitialSamples) =>
          windowDriven(rttAnalyzer') = windowDriven(rttAnalyzer)]_vars

-----------------------------------------------------------------------------
(* Properties of SpecRestart *)

\* The activations of probeLoop that have found isTracking true and are in
\* sendProbe
sendingLoops == {k \in DOMAIN loops : loops[k].pc = "sending"}

\* C33: at most one probe loop is active at any time, whatever the sequence
\* of startTracking and stopTracking: never are two activations of probeLoop
\* sending probes, also when a stop and a start fall into the inter-probe
\* delay of the first.
C33_AtMostOneProbeLoop == Cardinality(sendingLoops) <= 1

-----------------------------------------------------------------------------
(* Properties of SpecPending *)

-----------------------------------------------------------------------------
(* Properties of SpecOffline: what a probe timeout touches *)

\* C35: handling a probe timeout leaves the analyzer (window, burn-in
\* counter, histories, cached thresholds, transition counter, confirmation
\* state) and every other endpoint as they were; of the endpoint it changes
\* consecutiveTimeouts (one more), lastRtt (the elapsed wait), lastUpdate
\* (now) and, only when the count has reached 3, the published pair, which
\* becomes Offline / Unknown; an endpoint not seen before is created with
\* count 1 and Calibrating / Unknown.
C35_TimeoutBypassesAnalyzer ==
    [][(lastEvent'.op = "timeout" /\ lastEvent'.ret = <<"handled">>) =>
        LET jid == lastEvent'.jid
            new == deviceMetrics'[jid]
        IN  /\ rttAnalyzer' = rttAnalyzer
            /\ DOMAIN deviceMetrics' = DOMAIN deviceMetrics \cup {jid}
            /\ \A other \in DOMAIN deviceMetrics \ {jid} :
                  deviceMetrics'[other] = deviceMetrics[other]
            /\ new.lastRtt = lastEvent'.rtt
            /\ new.lastUpdate = now
            /\ IF jid \in DOMAIN deviceMetrics
               THEN LET old == deviceMetrics[jid]
                    IN  /\ new.consecutiveTimeouts = old.consecutiveTimeouts + 1
                        /\ new.rttHistory = old.rttHistory
                        /\ new.lastAnalysis = old.lastAnalysis
                        /\ <<new.activityState, new.networkType>> =
                              IF new.consecutiveTimeouts >= 3
                              THEN <<"Offline", "Unknown">>
                              ELSE <<old.activityState, old.networkType>>
               ELSE new = newDeviceMetrics(lastEvent'.rtt, now, 1)]_vars

\* The second timeout in a row of an endpoint published Online, whose window
\* has been classified: Online is still published, the analyzer is as it was
C35_SecondTimeoutKeepsOnline ==
    /\ lastEvent.op = "timeout"
    /\ Target \in DOMAIN deviceMetrics
    /\ deviceMetrics[Target].consecutiveTimeouts = 2
    /\ deviceMetrics[Target].activityState = "Online"
    /\ deviceMetrics[Target].lastRtt = probeTimeout
    /\ rttAnalyzer.confirmedActivity = "Online"
    /\ Len(rttAnalyzer.slidingWindow) >= minSamplesForJitter

-----------------------------------------------------------------------------
(* Properties of SpecEndpoints *)

\* C36: an acknowledgement from any tracked identifier of the target resets
\* the consecutiveTimeouts counter that the timeouts of the target's probes
\* increment, so that Offline is published for the target only after three
\* timeouts with no acknowledgement from any identifier in between.
C36_AckResetsTheCounterTimeoutsIncrement ==
    [][(lastEvent'.op = "ack" /\ Target \in DOMAIN deviceMetrics') =>
          deviceMetrics'[Target].consecutiveTimeouts = 0]_vars

-----------------------------------------------------------------------------
(* Properties of SpecServer *)

\* The instances made for jid whose isTracking is true
runningFor(jid) ==
    {i \in DOMAIN instances :
        instances[i].targetJid = jid /\ instances[i].isTracking}

\* C37: at most one tracker is running per contact JID, and every running
\* tracker is the one the trackers map holds for its JID, whatever the
\* interleaving of add-contact requests, remove-contact requests and
\* connection-close events.
C37_OneRegisteredTrackerPerJid ==
    \A jid \in ContactJids :
        /\ Cardinality(runningFor(jid)) <= 1
        /\ \A i \in runningFor(jid) :
              jid \in DOMAIN trackers /\ trackers[jid] = i

-----------------------------------------------------------------------------
(* Properties of SpecLong *)

\* C38: medianHistory and jitterHistory hold at most globalHistoryLimit
\* entries each, medianHistory is never longer than jitterHistory, every
\* device's rttHistory holds at most deviceHistoryLimit (50) entries, the
\* burn-in counter never exceeds discardInitialSamples (5); and a history
\* that is full loses its oldest entry to the new one.
C38_HistoriesBounded ==
    /\ [](/\ Len(rttAnalyzer.medianHistory) <= config.globalHistoryLimit
          /\ Len(rttAnalyzer.jitterHistory) <= config.globalHistoryLimit
          /\ Len(rttAnalyzer.medianHistory) <= Len(rttAnalyzer.jitterHistory)
          /\ \A jid \in DOMAIN deviceMetrics :
                Len(deviceMetrics[jid].rttHistory) <= deviceHistoryLimit
          /\ rttAnalyzer.discardedSampleCount <= discardInitialSamples)
    /\ [][WindowEvaluated =>
            LET r == lastAnalysisOf(deviceMetrics')
                full(h) == Len(h) = config.globalHistoryLimit
            IN  /\ full(rttAnalyzer.jitterHistory) =>
                      rttAnalyzer'.jitterHistory =
                          Append(Tail(rttAnalyzer.jitterHistory), r.windowJitter)
                /\ full(rttAnalyzer.medianHistory) =>
                      rttAnalyzer'.medianHistory \in
                          {rttAnalyzer.medianHistory,
                           Append(Tail(rttAnalyzer.medianHistory), r.windowMedian)}
                /\ Len(deviceMetrics[Target].rttHistory) = deviceHistoryLimit =>
                      deviceMetrics'[Target].rttHistory =
                          Append(Tail(deviceMetrics[Target].rttHistory),
                                 lastEvent'.rtt)]_vars

\* The device's rttHistory is full and has lost its first samples, taken on
\* another path, while both histories of the analyzer are at a limit of 10
C38_AllHistoriesFull ==
    /\ Target \in DOMAIN deviceMetrics
    /\ Len(deviceMetrics[Target].rttHistory) = deviceHistoryLimit
    /\ Len(observed.given) > deviceHistoryLimit
    /\ observed.given[1] # deviceMetrics[Target].rttHistory[1]
    /\ config.globalHistoryLimit = SmallHistoryLimit
    /\ Len(rttAnalyzer.medianHistory) = SmallHistoryLimit
    /\ Len(rttAnalyzer.jitterHistory) = SmallHistoryLimit
    /\ rttAnalyzer.discardedSampleCount = discardInitialSamples

-----------------------------------------------------------------------------
(* Properties of SpecEngine: the candidate of an axis *)

\* C39: on each axis a candidate, when there is one, differs from the axis's
\* confirmed value and has a window count of at least 1, and without a
\* candidate the window count is 0: no axis is pending toward the value it
\* has confirmed.
C39_CandidateDiffersFromConfirmed ==
    /\ rttAnalyzer.pendingActivity # Null =>
          /\ rttAnalyzer.pendingActivity # rttAnalyzer.confirmedActivity
          /\ rttAnalyzer.activityWindowCount >= 1
    /\ rttAnalyzer.pendingActivity = Null => rttAnalyzer.activityWindowCount = 0
    /\ rttAnalyzer.pendingNetwork # Null =>
          /\ rttAnalyzer.pendingNetwork # rttAnalyzer.confirmedNetwork
          /\ rttAnalyzer.networkWindowCount >= 1
    /\ rttAnalyzer.pendingNetwork = Null => rttAnalyzer.networkWindowCount = 0

=============================================================================
